---- MODULE Spec2Model ----
(***************************************************************************)
(* Model of the inning report engine of mlb_inning_analytics_core.py:      *)
(* analyze_games (historical aggregation), the confidence classification   *)
(* and bet recommendation stage of generate_report_data_and_pdfs, and      *)
(* generate_ranked_parlays.  The inning number is 1 throughout, so every   *)
(* key that embeds it reads "... INNING 1".                                *)
(*                                                                         *)
(* Numbers of the report are exact rationals n/d in lowest terms (the code *)
(* uses floats; k/n*100 and sum/n are compared with thresholds exactly).   *)
(* Python's None is the empty string.                                      *)
(***************************************************************************)
EXTENDS Integers, Sequences, FiniteSets, TLC

\* ------------------------------------------------------------------ bounds
\* Dates are 1..MaxDate; a fact row is dated by one of them.
MaxDate == 3
\* At most MaxDays daily directories are consolidated into the master tables.
MaxDays == 2
\* A report table drawn for the parlay ranker has at most MaxRows rows.
MaxRows == 3
\* A single-value classification is called with numerators up to MaxValue.
MaxValue == 30
\* A percentage handed to a composite is k/n * 100 with n up to MaxGames.
MaxGames == 10
\* A report table drawn for the Top-4 lists has at most MaxSlate rows.
MaxSlate == 5
\* A share or a per-game average handed to an inline classifier is computed
\* over at most MaxStarts games.
MaxStarts == 27
\* A strikeout rate handed to calculate_k_bet_and_confidence is k/n * 100
\* with n up to MaxKGames.
MaxKGames == 5
\* A team plays at most MaxGamesPerDay games on one date.
MaxGamesPerDay == 2

\* ------------------------------------------------------------------ values
None == ""

RECURSIVE GCD(_, _)
GCD(a, b) == IF b = 0 THEN a ELSE GCD(b, a % b)

\* A number n/d (d > 0), in lowest terms.
Num(n, d) ==
    LET g == GCD(n, d)
    IN  IF g = 0 THEN [kind |-> "num", n |-> 0, d |-> 1, s |-> ""]
        ELSE [kind |-> "num", n |-> n \div g, d |-> d \div g, s |-> ""]

Whole(n) == [kind |-> "num", n |-> n, d |-> 1, s |-> ""]

Str(t) == [kind |-> "str", n |-> 0, d |-> 1, s |-> t]

Zero == Whole(0)

\* x >= a/b, x <= a/b, x > a/b, x < a/b for a number x and a threshold a/b.
Ge(x, a, b) == x.n * b >= a * x.d
Le(x, a, b) == x.n * b <= a * x.d
Gt(x, a, b) == x.n * b > a * x.d
Lt(x, a, b) == x.n * b < a * x.d

\* 100 - x
Complement(x) == Num(100 * x.d - x.n, x.d)

\* ------------------------------------------------------------------ names
Teams == {"NYY", "DET"}

\* Pitcher names as the ingestion side hands them over ('Last, First').
PitcherNames == {"Cole, Gerrit", "Skubal, Tarik", "Fried, Max"}

\* ',' in name
HasComma(name) == name \in PitcherNames

\* format_name_last_first: 'First Last' -> 'Last, First'; a name with a
\* comma is returned as it is.
format_name_last_first(name) ==
    IF HasComma(name) THEN name
    ELSE CASE name = "Gerrit Cole" -> "Cole, Gerrit"
           [] name = "Tarik Skubal" -> "Skubal, Tarik"
           [] name = "Max Fried" -> "Fried, Max"
           [] OTHER -> name

\* The display name analyze_games builds from the raw name: the last
\* whitespace-separated part first, then the rest, trailing commas removed.
DisplayName(name) ==
    CASE name = "Cole, Gerrit" -> "Gerrit Cole"
      [] name = "Skubal, Tarik" -> "Tarik Skubal"
      [] name = "Gerrit Cole" -> "Cole Gerrit"
      [] name = "Tarik Skubal" -> "Skubal Tarik"
      [] name = "Fried, Max" -> "Max Fried"
      [] name = "Max Fried" -> "Fried Max"
      [] OTHER -> name

\* ------------------------------------------------------------------ metric catalog
Metric(col, avg, rate, pct, total, today, last) ==
    [col_name |-> col, report_key_avg |-> avg, report_key_rate |-> rate,
     report_key_per_game_pct |-> pct, total_col |-> total,
     today_report_key |-> today, last_game_key |-> last]

PITCHER_METRICS_INNING == <<
    Metric("inning_1_strikeouts", None, "PITCH K RATE %", None, None,
           "TODAY PITCHER STRIKEOUTS INNING 1", "LAST GAME PITCHER STRIKEOUTS INNING 1"),
    Metric("inning_1_runs_allowed", "PITCH RUNS ALLOWED/GM", None, "PITCH RUNS ALLOWED PER GAME %", None,
           "TODAY PITCHER RUNS ALLOWED INNING 1", "LAST GAME PITCHER RUNS ALLOWED INNING 1"),
    Metric("inning_1_hits_allowed", "PITCH HIT AVG #", None, "PITCH NRHI %", None,
           "TODAY PITCHER HITS INNING 1", "LAST GAME PITCHER HITS ALLOWED INNING 1"),
    Metric("inning_1_hits_allowed", "PITCHER VENUE NRHI %", None, None, None, None, None),
    Metric("inning_1_singles_allowed", "PITCH SINGLES ALLOWED/GM", None, "PITCH SINGLES ALLOWED PER GAME %", None,
           "TODAY PITCHER SINGLES INNING 1", "LAST GAME PITCHER SINGLES ALLOWED INNING 1"),
    Metric("inning_1_singles_allowed", "VENUE PITCH SINGLES ALLOWED/GM", None, None, None, None, None),
    Metric("inning_1_doubles_allowed", "PITCH DOUBLES ALLOWED/GM", None, "PITCH DOUBLES ALLOWED PER GAME %", None,
           "TODAY PITCHER DOUBLES INNING 1", "LAST GAME PITCHER DOUBLES ALLOWED INNING 1"),
    Metric("inning_1_doubles_allowed", "VENUE PITCH DOUBLES ALLOWED/GM", None, None, None, None, None),
    Metric("inning_1_triples_allowed", "PITCH TRIPLES ALLOWED/GM", None, "PITCH TRIPLES ALLOWED PER GAME %", None,
           "TODAY PITCHER TRIPLES INNING 1", "LAST GAME PITCHER TRIPLES ALLOWED INNING 1"),
    Metric("inning_1_triples_allowed", "VENUE PITCH TRIPLES ALLOWED/GM", None, None, None, None, None),
    Metric("inning_1_homers_allowed", "PITCH HOMERS ALLOWED/GM", None, "PITCH HOMERS ALLOWED PER GAME %", None,
           "TODAY PITCHER HOMERS INNING 1", "LAST GAME PITCHER HOMERS ALLOWED INNING 1"),
    Metric("inning_1_homers_allowed", "VENUE PITCH HOMERS ALLOWED/GM", None, None, None, None, None),
    Metric("inning_1_total_bases_allowed", "PITCH TOTAL BASES ALLOWED/GM", None, "PITCH TOTAL BASES ALLOWED PER GAME %", None,
           "TODAY PITCHER TOTAL BASES INNING 1", "LAST GAME PITCHER TOTAL BASES ALLOWED INNING 1"),
    Metric("inning_1_total_bases_allowed", "VENUE PITCH TOTAL BASES ALLOWED/GM", None, None, None, None, None),
    Metric("inning_1_walks_allowed", None, None, "PITCH WALKS ALLOWED PER GAME %", "inning_1_batters_faced",
           "TODAY PITCHER WALKS INNING 1", "LAST GAME PITCHER WALKS ALLOWED INNING 1"),
    Metric("inning_1_walks_allowed", "VENUE PITCH WALKS ALLOWED/GM", None, None, None, None, None) >>

BATTING_METRICS_INNING == <<
    Metric("inning_1_strikeouts_batting", "OPP K/GM", "OPP K RATE %", None, None,
           "TODAY OPPONENT STRIKEOUTS INNING 1", "LAST GAME OPPONENT STRIKEOUTS BATTING INNING 1"),
    Metric("inning_1_runs_scored", "OPP R/G", None, None, None,
           "TODAY OPPONENT RUNS SCORED INNING 1", "LAST GAME OPPONENT RUNS SCORED INNING 1"),
    Metric("inning_1_hits_batting", "BAT HIT AVG #", "BAT HIT AVG", None, "inning_1_batters_to_plate",
           "TODAY OPPONENT HITS INNING 1", "LAST GAME OPPONENT HITS BATTING INNING 1"),
    Metric("inning_1_hits_batting", "BATTER VENUE NRHI %", None, None, None, None, None),
    Metric("inning_1_hits_batting", None, None, "BAT NRHI %", None, None, None),
    Metric("inning_1_singles_batting", "OPP SINGLES BATTING/GM", None, None, None,
           "TODAY OPPONENT SINGLES INNING 1", "LAST GAME OPPONENT SINGLES BATTING INNING 1"),
    Metric("inning_1_singles_batting", "VENUE BAT SINGLES BATTING/GM", None, None, None, None, None),
    Metric("inning_1_doubles_batting", "OPP DOUBLES BATTING/GM", None, None, None,
           "TODAY OPPONENT DOUBLES INNING 1", "LAST GAME OPPONENT DOUBLES BATTING INNING 1"),
    Metric("inning_1_doubles_batting", "VENUE BAT DOUBLES BATTING/GM", None, None, None, None, None),
    Metric("inning_1_triples_batting", "OPP TRIPLES BATTING/GM", None, None, None,
           "TODAY OPPONENT TRIPLES INNING 1", "LAST GAME OPPONENT TRIPLES BATTING INNING 1"),
    Metric("inning_1_triples_batting", "VENUE BAT TRIPLES BATTING/GM", None, None, None, None, None),
    Metric("inning_1_homers_batting", "OPP HOMERS BATTING/GM", None, None, None,
           "TODAY OPPONENT HOMERS INNING 1", "LAST GAME OPPONENT HOMERS BATTING INNING 1"),
    Metric("inning_1_homers_batting", "VENUE BAT HOMERS BATTING/GM", None, None, None, None, None),
    Metric("inning_1_total_bases_batting", "OPP TOTAL BASES BATTING/GM", None, None, None,
           "TODAY OPPONENT TOTAL BASES INNING 1", "LAST GAME OPPONENT TOTAL BASES BATTING INNING 1"),
    Metric("inning_1_total_bases_batting", "VENUE BAT TOTAL BASES BATTING/GM", None, None, None, None, None),
    Metric("inning_1_walks_batting", "OPP WALKS BATTING/GM", None, None, "inning_1_batters_to_plate",
           None, "LAST GAME OPPONENT WALKS BATTING INNING 1"),
    Metric("inning_1_walks_batting", "VENUE BAT WALKS BATTING/GM", None, None, None, None, None) >>

\* The metric columns of the two master tables.
get_inning_pitcher_columns ==
    {"inning_1_strikeouts", "inning_1_runs_allowed", "inning_1_batters_faced",
     "inning_1_hits_allowed", "inning_1_singles_allowed", "inning_1_doubles_allowed",
     "inning_1_triples_allowed", "inning_1_homers_allowed",
     "inning_1_total_bases_allowed", "inning_1_walks_allowed"}

get_inning_batting_columns ==
    {"inning_1_runs_scored", "inning_1_strikeouts_batting", "inning_1_batters_to_plate",
     "inning_1_hits_batting", "inning_1_singles_batting", "inning_1_doubles_batting",
     "inning_1_triples_batting", "inning_1_homers_batting",
     "inning_1_total_bases_batting", "inning_1_walks_batting",
     "inning_1_at_bats_total_batting"}

\* The label-to-weight maps, in halves (Low = 1 is 2, 2.5 is 5, HIGH OVER = 4 is 8).
confidence_map ==
    ("Low" :> 2) @@ ("Moderate" :> 4) @@ ("High" :> 6) @@ ("HIGH OVER" :> 8)

nrfi_yrfi_map ==
    ("Low" :> 2) @@ ("Moderate (leaning NRFI)" :> 5) @@ ("High (NRFI)" :> 6) @@
    ("Moderate (leaning YRFI)" :> 5) @@ ("High (YRFI)" :> 6)

over_under_map ==
    ("Low" :> 2) @@ ("Moderate (leaning Under)" :> 5) @@ ("High (Under)" :> 6) @@
    ("Moderate (leaning Over)" :> 5) @@ ("High (Over)" :> 6)

\* A lookup that gives an unknown label the weight of Low.
MapGetLowest(map, label) == IF label \in DOMAIN map THEN map[label] ELSE 2

\* dict.get(label, 0)
MapGet(map, label) == IF label \in DOMAIN map THEN map[label] ELSE 0

\* ------------------------------------------------------------------ fact rows
Dates == 1..MaxDate

\* What happened in the inning of one historical game.
Profiles == {"quiet", "rally"}

PitcherVals(profile) ==
    IF profile = "quiet"
    THEN [c \in get_inning_pitcher_columns |->
            CASE c = "inning_1_strikeouts" -> 2
              [] c = "inning_1_batters_faced" -> 3
              [] OTHER -> 0]
    ELSE [c \in get_inning_pitcher_columns |->
            CASE c = "inning_1_strikeouts" -> 0
              [] c = "inning_1_runs_allowed" -> 2
              [] c = "inning_1_batters_faced" -> 7
              [] c = "inning_1_hits_allowed" -> 3
              [] c = "inning_1_singles_allowed" -> 1
              [] c = "inning_1_doubles_allowed" -> 1
              [] c = "inning_1_triples_allowed" -> 0
              [] c = "inning_1_homers_allowed" -> 1
              [] c = "inning_1_total_bases_allowed" -> 7
              [] OTHER -> 1]

BattingVals(profile) ==
    IF profile = "quiet"
    THEN [c \in get_inning_batting_columns |->
            CASE c = "inning_1_strikeouts_batting" -> 2
              [] c = "inning_1_batters_to_plate" -> 3
              [] c = "inning_1_at_bats_total_batting" -> 3
              [] OTHER -> 0]
    ELSE [c \in get_inning_batting_columns |->
            CASE c = "inning_1_strikeouts_batting" -> 0
              [] c = "inning_1_runs_scored" -> 2
              [] c = "inning_1_batters_to_plate" -> 7
              [] c = "inning_1_at_bats_total_batting" -> 6
              [] c = "inning_1_hits_batting" -> 3
              [] c = "inning_1_singles_batting" -> 1
              [] c = "inning_1_doubles_batting" -> 1
              [] c = "inning_1_triples_batting" -> 0
              [] c = "inning_1_homers_batting" -> 1
              [] c = "inning_1_total_bases_batting" -> 7
              [] OTHER -> 1]

\* The game played on date d has game id 10 d + 1.
GameIdOn(d) == 10 * d + 1

\* A row of the master pitcher table: the pitcher of the model's history is
\* Gerrit Cole (NYY), facing DET.
PitcherFact(d, home, profile) ==
    [date |-> d, game_id |-> GameIdOn(d), pitcher_name |-> "Cole, Gerrit",
     team_id |-> "NYY", opponent_team_id |-> "DET",
     is_home_pitcher |-> home, vals |-> PitcherVals(profile)]

\* A row of the master batting table: the batting team of the model's
\* history is DET, facing NYY.
BattingFact(d, home, profile) ==
    [date |-> d, game_id |-> GameIdOn(d), team_id |-> "DET",
     opponent_team_id |-> "NYY",
     is_home_team |-> home, vals |-> BattingVals(profile)]


\* ------------------------------------------------------------------ games
Game(id, home, away, home_pitcher, away_pitcher) ==
    [game_id |-> id, home_team |-> home, away_team |-> away,
     home_pitcher |-> home_pitcher, away_pitcher |-> away_pitcher]

\* The games lists the ingestion side can supply for report date D.
GameLists(D) ==
    { << >>,
      << Game(GameIdOn(D), "NYY", "DET", "Cole, Gerrit", "Skubal, Tarik") >>,
      << Game(GameIdOn(D), "DET", "NYY", "Skubal, Tarik", "Cole, Gerrit") >>,
      << Game(GameIdOn(D), "NYY", "DET", None, None) >>,
      << Game(GameIdOn(D), "DET", "NYY", None, "Cole, Gerrit") >>,
      << Game(GameIdOn(D), "NYY", "DET", "Fried, Max", None) >> }

\* ------------------------------------------------------------------ state
VARIABLES
    master_pitcher_df,   \* rows of master_inning_1_pitcher_data.csv
    master_batting_df,   \* rows of master_inning_1_batting_data.csv
    pitcher_columns,     \* metric columns the pitcher table has
    batting_columns,     \* metric columns the batting table has
    report_date,         \* the report date of the current request (0: none)
    game_pitcher_info,   \* the games list of the current request
    pc,                  \* "idle" | "returned"
    outcome,             \* "none" | "ok" | "empty" | "raised": how the request ended
    error,               \* the exception a request raised, None otherwise
    report_df,           \* the report table (a sequence of rows)
    recommendations,     \* list name -> Top-4 list
    parlays,             \* category name -> ranked parlay list
    call,                \* a classification function called on its own: its name and arguments
    result               \* the label that call returned (None before it returns)

vars == << master_pitcher_df, master_batting_df, pitcher_columns, batting_columns,
           report_date, game_pitcher_info, pc, outcome, error, report_df,
           recommendations, parlays, call, result >>

\* ------------------------------------------------------------------ aggregation helpers
\* df['game_id'].nunique()
nunique(rows) == Cardinality({r.game_id : r \in rows})

\* df[df[col] == 0]['game_id'].nunique()
ZeroGames(rows, col) == nunique({r \in rows : r.vals[col] = 0})

\* df[df[col] >= 1]['game_id'].nunique()   (the same rows as df[col] > 0)
PositiveGames(rows, col) == nunique({r \in rows : r.vals[col] >= 1})

RECURSIVE SumCol(_, _)
\* df[col].sum()
SumCol(rows, col) ==
    IF rows = {} THEN 0
    ELSE LET r == CHOOSE x \in rows : TRUE
         IN  r.vals[col] + SumCol(rows \ {r}, col)

\* The percentage computed without the games > 0 guard: over zero games the
\* quotient has denominator 0.
PctUnguarded(count, games) ==
    IF games = 0 THEN [kind |-> "num", n |-> 100 * count, d |-> 0, s |-> ""]
    ELSE Num(100 * count, games)

\* (count / games) * 100 if games > 0 else 0.0
Pct(count, games) == IF games > 0 THEN Num(100 * count, games) ELSE Zero

\* total / games if games > 0 else 0.0
Avg(total, games) == IF games > 0 THEN Num(total, games) ELSE Zero

\* A history filter that lets the rows of the report date in.
PastDataThroughReportDate(df, D) == {r \in df : r.date <= D}

\* master_df[master_df['date'] < report_date_dt]
PastData(df, D) == {r \in df : r.date < D}

\* The first row of the history instead of the last.
EarliestOuting(history) ==
    CHOOSE r \in history :
        \A o \in history :
            \/ o.date > r.date
            \/ (o.date = r.date /\ o.game_id >= r.game_id)

\* sort_values(by=['date', 'game_id'], ascending=[False, False]).iloc[0]
LatestOuting(history) ==
    CHOOSE r \in history :
        \A o \in history :
            \/ o.date < r.date
            \/ (o.date = r.date /\ o.game_id <= r.game_id)

\* entry[key] = value
Put(entry, key, value) == (key :> value) @@ entry

\* ------------------------------------------------------------------ analyze_games
\* The confidence and bet columns analyze_games pre-populates.
ConfidenceAndBetKeys ==
    {"PITCH K CONF", "OPP K CONF", "Overall K CONFIDENCE", "PITCHER K BET", "OPPONENT K BET",
     "PITCH NRFI CONF", "OPP R/G CONF", "PITCH RUNS ALLOWED CONF",
     "Overall Run Prevention Confidence", "Overall CONFIDENCE FOR NRFI AND YRFI",
     "PITCHER RUNS BET", "OPPONENT RUNS BET",
     "PITCH NRHI CONF", "PITCHER VENUE NRHI CONF", "BAT NRHI CONF", "BATTER VENUE NRHI CONF",
     "Overall HITS CONFIDENCE", "PITCH HITS ALLOWED CONF", "OPP HITS BATTING CONF",
     "OPPONENT HITS BET",
     "PITCH WALKS ALLOWED CONF", "OPP WALKS BATTING CONF", "Overall WALKS CONFIDENCE",
     "PITCHER WALKS BET", "OPPONENT WALKS BET",
     "PITCH SINGLES ALLOWED CONF", "OPP SINGLES BATTING CONF", "Overall SINGLES CONFIDENCE",
     "PITCHER SINGLES BET", "OPPONENT SINGLES BET",
     "PITCH DOUBLES ALLOWED CONF", "OPP DOUBLES BATTING CONF", "Overall DOUBLES CONFIDENCE",
     "PITCHER DOUBLES BET", "OPPONENT DOUBLES BET",
     "PITCH TRIPLES ALLOWED CONF", "OPP TRIPLES BATTING CONF", "Overall TRIPLES CONFIDENCE",
     "PITCHER TRIPLES BET", "OPPONENT TRIPLES BET",
     "PITCH HOMERS ALLOWED CONF", "OPP HOMERS BATTING CONF", "Overall HOMERS CONFIDENCE",
     "PITCHER HOMERS BET", "OPPONENT HOMERS BET",
     "PITCH TOTAL BASES ALLOWED CONF", "OPP TOTAL BASES BATTING CONF",
     "Overall TOTAL BASES CONFIDENCE", "PITCHER TOTAL BASES BET", "OPPONENT TOTAL BASES BET"}

\* The venue percentages and rates analyze_games always sets.
VenueKeys ==
    {"PITCHER VENUE NRFI % INNING 1", "OPPONENT VENUE NRFI % INNING 1",
     "PITCHER VENUE NRHI % INNING 1", "BATTER VENUE NRHI % INNING 1",
     "VENUE PITCH K RATE %", "VENUE OPP K RATE %"}

SeqRange(q) == {q[i] : i \in 1..Len(q)}

\* The keys of one slot of a catalog, None left out.
CatalogKeys(catalog, slot) == {m[slot] : m \in SeqRange(catalog)} \ {None}

LastGameKeys ==
    CatalogKeys(PITCHER_METRICS_INNING, "last_game_key") \cup
    CatalogKeys(BATTING_METRICS_INNING, "last_game_key")

TodayKeys ==
    CatalogKeys(PITCHER_METRICS_INNING, "today_report_key") \cup
    CatalogKeys(BATTING_METRICS_INNING, "today_report_key")

all_potential_report_keys ==
    CatalogKeys(PITCHER_METRICS_INNING, "report_key_avg") \cup
    CatalogKeys(PITCHER_METRICS_INNING, "report_key_rate") \cup
    CatalogKeys(PITCHER_METRICS_INNING, "report_key_per_game_pct") \cup
    CatalogKeys(BATTING_METRICS_INNING, "report_key_avg") \cup
    CatalogKeys(BATTING_METRICS_INNING, "report_key_rate") \cup
    CatalogKeys(BATTING_METRICS_INNING, "report_key_per_game_pct") \cup
    LastGameKeys \cup TodayKeys \cup VenueKeys \cup ConfidenceAndBetKeys \cup
    {"PITCH NRFI % INNING 1"}

\* The keys that hold 'CONFIDENCE', 'CONF' or 'BET' ("Confidence" in lower case
\* holds none of them).
NeutralKeys == ConfidenceAndBetKeys \ {"Overall Run Prevention Confidence"}

\* The default of a pre-populated key.
DefaultValue(key) ==
    IF key \in NeutralKeys THEN Str("Neutral")
    ELSE IF key \in LastGameKeys THEN Str("N/A")
    ELSE Zero

\* 'VENUE' in report_key_avg
IsVenueKey(key) ==
    key \in {"PITCHER VENUE NRHI %", "VENUE PITCH SINGLES ALLOWED/GM",
             "VENUE PITCH DOUBLES ALLOWED/GM", "VENUE PITCH TRIPLES ALLOWED/GM",
             "VENUE PITCH HOMERS ALLOWED/GM", "VENUE PITCH TOTAL BASES ALLOWED/GM",
             "VENUE PITCH WALKS ALLOWED/GM",
             "BATTER VENUE NRHI %", "VENUE BAT SINGLES BATTING/GM",
             "VENUE BAT DOUBLES BATTING/GM", "VENUE BAT TRIPLES BATTING/GM",
             "VENUE BAT HOMERS BATTING/GM", "VENUE BAT TOTAL BASES BATTING/GM",
             "VENUE BAT WALKS BATTING/GM"}

\* 'NRHI' in report_key_avg
IsNrhiKey(key) == key \in {"PITCHER VENUE NRHI %", "BATTER VENUE NRHI %"}

\* A venue split that keeps the rows of both roles.
VenueRowsOfBothRoles(history, flag, is_home) == history

\* The rows of a history played in the given home/away role.
VenueRows(history, flag, is_home) == {r \in history : r[flag] = is_home}

\* The six venue values of a row (pitcher role is_home, opponent role the inverse).
VenueLayer(pitcher_history, opponent_history, is_home) ==
    LET pv == VenueRows(pitcher_history, "is_home_pitcher", is_home)
        ov == VenueRows(opponent_history, "is_home_team", ~is_home)
    IN  ("PITCHER VENUE NRFI % INNING 1" :>
            Pct(ZeroGames(pv, "inning_1_runs_allowed"), nunique(pv))) @@
        ("OPPONENT VENUE NRFI % INNING 1" :>
            Pct(ZeroGames(ov, "inning_1_runs_scored"), nunique(ov))) @@
        ("PITCHER VENUE NRHI % INNING 1" :>
            Pct(ZeroGames(pv, "inning_1_hits_allowed"), nunique(pv))) @@
        ("BATTER VENUE NRHI % INNING 1" :>
            Pct(ZeroGames(ov, "inning_1_hits_batting"), nunique(ov))) @@
        ("VENUE PITCH K RATE %" :>
            Pct(PositiveGames(pv, "inning_1_strikeouts"), nunique(pv))) @@
        ("VENUE OPP K RATE %" :>
            Pct(PositiveGames(ov, "inning_1_strikeouts_batting"), nunique(ov)))

\* The index of the last catalog entry whose slot holds the key.
LastWriter(catalog, slot, key) ==
    CHOOSE i \in 1..Len(catalog) :
        /\ catalog[i][slot] = key
        /\ \A j \in (i + 1)..Len(catalog) : catalog[j][slot] # key

\* The last-game loop over a catalog: the keys it sets and their values.
LastGameLoop(catalog, history, columns) ==
    [key \in CatalogKeys(catalog, "last_game_key") |->
        LET m == catalog[LastWriter(catalog, "last_game_key", key)]
        IN  IF history # {} /\ m.col_name \in columns
            THEN Whole(LatestOuting(history).vals[m.col_name])
            ELSE Str("N/A")]

\* No key set yet.
NoKeys == [key \in {} |-> Zero]

\* A pitcher pass that also computes the share of games with a run allowed.
PitcherMetricStepWithRunsShare(m, history, columns, is_home) ==
    LET entry == NoKeys
        games_pitched == nunique(history)
        venue == VenueRows(history, "is_home_pitcher", is_home)
    IN  IF m.report_key_rate = "PITCH K RATE %"
        THEN Put(entry, m.report_key_rate,
                 IF games_pitched > 0
                 THEN Pct(PositiveGames(history, m.col_name), games_pitched)
                 ELSE Zero)
        ELSE IF m.col_name \in columns
        THEN LET e1 == IF m.report_key_per_game_pct = None THEN entry
                       ELSE Put(entry, m.report_key_per_game_pct,
                                IF games_pitched > 0
                                THEN IF m.col_name = "inning_1_hits_allowed"
                                     THEN Pct(ZeroGames(history, m.col_name), games_pitched)
                                     ELSE IF m.col_name \notin {"inning_1_strikeouts"}
                                     THEN Pct(PositiveGames(history, m.col_name), games_pitched)
                                     ELSE Zero
                                ELSE Zero)
                 e2 == IF m.report_key_avg = None THEN e1
                       ELSE IF IsVenueKey(m.report_key_avg)
                       THEN IF IsNrhiKey(m.report_key_avg)
                            THEN Put(e1, m.report_key_avg,
                                     Pct(ZeroGames(venue, "inning_1_hits_allowed"),
                                         nunique(venue)))
                            ELSE Put(e1, m.report_key_avg,
                                     Avg(SumCol(venue, m.col_name), nunique(venue)))
                       ELSE Put(e1, m.report_key_avg,
                                Avg(SumCol(history, m.col_name), games_pitched))
                 e3 == IF m.report_key_rate # None /\ m.total_col # None
                          /\ m.total_col \in columns
                       THEN Put(e2, m.report_key_rate,
                                Pct(SumCol(history, m.col_name),
                                    SumCol(history, m.total_col)))
                       ELSE IF m.report_key_rate # None
                       THEN Put(e2, m.report_key_rate, Zero)
                       ELSE e2
             IN  e3
        ELSE LET d1 == IF m.report_key_avg = None THEN entry
                       ELSE Put(entry, m.report_key_avg, Zero)
                 d2 == IF m.report_key_rate = None THEN d1
                       ELSE Put(d1, m.report_key_rate, Zero)
             IN  IF m.report_key_per_game_pct = None THEN d2
                 ELSE Put(d2, m.report_key_per_game_pct, Zero)

\* One pass of a metric loop: the keys it sets and their values.
PitcherMetricStep(m, history, columns, is_home) ==
    LET entry == NoKeys
        games_pitched == nunique(history)
        venue == VenueRows(history, "is_home_pitcher", is_home)
    IN  IF m.report_key_rate = "PITCH K RATE %"
        THEN Put(entry, m.report_key_rate,
                 IF games_pitched > 0
                 THEN Pct(PositiveGames(history, m.col_name), games_pitched)
                 ELSE Zero)
        ELSE IF m.col_name \in columns
        THEN LET e1 == IF m.report_key_per_game_pct = None THEN entry
                       ELSE Put(entry, m.report_key_per_game_pct,
                                IF games_pitched > 0
                                THEN IF m.col_name = "inning_1_hits_allowed"
                                     THEN Pct(ZeroGames(history, m.col_name), games_pitched)
                                     ELSE IF m.col_name \notin {"inning_1_strikeouts",
                                                                "inning_1_runs_allowed"}
                                     THEN Pct(PositiveGames(history, m.col_name), games_pitched)
                                     ELSE Zero
                                ELSE Zero)
                 e2 == IF m.report_key_avg = None THEN e1
                       ELSE IF IsVenueKey(m.report_key_avg)
                       THEN IF IsNrhiKey(m.report_key_avg)
                            THEN Put(e1, m.report_key_avg,
                                     Pct(ZeroGames(venue, "inning_1_hits_allowed"),
                                         nunique(venue)))
                            ELSE Put(e1, m.report_key_avg,
                                     Avg(SumCol(venue, m.col_name), nunique(venue)))
                       ELSE Put(e1, m.report_key_avg,
                                Avg(SumCol(history, m.col_name), games_pitched))
                 e3 == IF m.report_key_rate # None /\ m.total_col # None
                          /\ m.total_col \in columns
                       THEN Put(e2, m.report_key_rate,
                                Pct(SumCol(history, m.col_name),
                                    SumCol(history, m.total_col)))
                       ELSE IF m.report_key_rate # None
                       THEN Put(e2, m.report_key_rate, Zero)
                       ELSE e2
             IN  e3
        ELSE LET d1 == IF m.report_key_avg = None THEN entry
                       ELSE Put(entry, m.report_key_avg, Zero)
                 d2 == IF m.report_key_rate = None THEN d1
                       ELSE Put(d1, m.report_key_rate, Zero)
             IN  IF m.report_key_per_game_pct = None THEN d2
                 ELSE Put(d2, m.report_key_per_game_pct, Zero)

BattingMetricStep(m, history, columns, is_home) ==
    LET entry == NoKeys
        opponent_games_played == nunique(history)
        venue == VenueRows(history, "is_home_team", is_home)
    IN  IF m.report_key_rate = "OPP K RATE %"
        THEN Put(entry, m.report_key_rate,
                 IF opponent_games_played > 0
                 THEN Pct(PositiveGames(history, m.col_name), opponent_games_played)
                 ELSE Zero)
        ELSE IF m.col_name \in columns
        THEN LET e1 == IF m.report_key_per_game_pct = None THEN entry
                       ELSE Put(entry, m.report_key_per_game_pct,
                                IF opponent_games_played > 0
                                THEN Pct(ZeroGames(history, m.col_name),
                                         opponent_games_played)
                                ELSE Zero)
                 e2 == IF m.report_key_avg = None THEN e1
                       ELSE IF IsVenueKey(m.report_key_avg)
                       THEN IF IsNrhiKey(m.report_key_avg)
                            THEN Put(e1, m.report_key_avg,
                                     Pct(ZeroGames(venue, "inning_1_hits_batting"),
                                         nunique(venue)))
                            ELSE Put(e1, m.report_key_avg,
                                     Avg(SumCol(venue, m.col_name), nunique(venue)))
                       ELSE Put(e1, m.report_key_avg,
                                Avg(SumCol(history, m.col_name), opponent_games_played))
                 e3 == IF m.report_key_rate # None /\ m.total_col # None
                          /\ m.total_col \in columns
                       THEN Put(e2, m.report_key_rate,
                                Pct(SumCol(history, m.col_name),
                                    SumCol(history, m.total_col)))
                       ELSE IF m.report_key_rate # None
                       THEN Put(e2, m.report_key_rate, Zero)
                       ELSE e2
             IN  e3
        ELSE LET d1 == IF m.report_key_avg = None THEN entry
                       ELSE Put(entry, m.report_key_avg, Zero)
                 d2 == IF m.report_key_rate = None THEN d1
                       ELSE Put(d1, m.report_key_rate, Zero)
             IN  IF m.report_key_per_game_pct = None THEN d2
                 ELSE Put(d2, m.report_key_per_game_pct, Zero)

\* What a loop leaves in the entry: the keys of its passes, a later pass
\* replacing the value an earlier one set.
MergeSteps(steps) ==
    [key \in UNION {DOMAIN steps[i] : i \in 1..Len(steps)} |->
        LET last == CHOOSE i \in 1..Len(steps) :
                        /\ key \in DOMAIN steps[i]
                        /\ \A j \in (i + 1)..Len(steps) : key \notin DOMAIN steps[j]
        IN  steps[last][key]]

PitcherMetricLoop(history, columns, is_home) ==
    MergeSteps([i \in 1..Len(PITCHER_METRICS_INNING) |->
                   PitcherMetricStep(PITCHER_METRICS_INNING[i], history, columns, is_home)])

BattingMetricLoop(history, columns, is_home) ==
    MergeSteps([i \in 1..Len(BATTING_METRICS_INNING) |->
                   BattingMetricStep(BATTING_METRICS_INNING[i], history, columns, is_home)])

\* The 'TODAY' loop over a catalog (the same-day rows of the game): the keys
\* it sets and their values.
TodayLoop(catalog, todays, columns) ==
    [key \in CatalogKeys(catalog, "today_report_key") |->
        LET m == catalog[LastWriter(catalog, "today_report_key", key)]
        IN  IF todays # {} /\ m.col_name \in columns
            THEN Whole(SumCol(todays, m.col_name))
            ELSE Zero]

\* Metric columns analyze_games reads without checking that the table has
\* them (the venue NRFI / NRHI / K-rate blocks): a missing one is a KeyError.
UnguardedPitcherColumns ==
    {"inning_1_runs_allowed", "inning_1_hits_allowed", "inning_1_strikeouts"}

UnguardedBattingColumns ==
    {"inning_1_runs_scored", "inning_1_hits_batting", "inning_1_strikeouts_batting"}

\* The pitchers of one game, the away pitcher first.
pitchers_to_analyze(game_info) ==
    (IF game_info.away_pitcher # None
     THEN << [name_raw |-> game_info.away_pitcher, team_raw |-> game_info.away_team,
              opponent_raw |-> game_info.home_team, is_home |-> FALSE] >>
     ELSE << >>)
    \o
    (IF game_info.home_pitcher # None
     THEN << [name_raw |-> game_info.home_pitcher, team_raw |-> game_info.home_team,
              opponent_raw |-> game_info.away_team, is_home |-> TRUE] >>
     ELSE << >>)

\* A games entry is a probable-pitcher entry when a pitcher name has no comma.
is_probable_pitcher_entry(game_info) ==
    IF game_info.away_pitcher # None /\ ~HasComma(game_info.away_pitcher) THEN TRUE
    ELSE game_info.home_pitcher # None /\ ~HasComma(game_info.home_pitcher)

\* The report entry of one pitcher of one game (the body of the inner loop).
report_entry(game_info, pitcher_data, D, pdf, bdf, pcols, bcols) ==
    LET lookup == IF is_probable_pitcher_entry(game_info)
                  THEN format_name_last_first(pitcher_data.name_raw)
                  ELSE pitcher_data.name_raw
        opponent == pitcher_data.opponent_raw
        is_home == pitcher_data.is_home
        pitcher_history == {r \in PastData(pdf, D) : r.pitcher_name = lookup}
        opponent_history == {r \in PastData(bdf, D) : r.team_id = opponent}
        base == ("Game" :> Str(game_info.away_team \o " @ " \o game_info.home_team)) @@
                ("Pitcher" :> Str(DisplayName(pitcher_data.name_raw))) @@
                ("# TOTAL STARTS INNING 1" :> Whole(nunique(pitcher_history))) @@
                ("Pitcher Team" :> Str(pitcher_data.team_raw)) @@
                ("Opponent" :> Str(opponent)) @@
                ("Game ID" :> Whole(game_info.game_id))
        defaults == [k \in all_potential_report_keys |-> DefaultValue(k)]
        pitch_nrfi ==
            "PITCH NRFI % INNING 1" :>
                (IF "inning_1_runs_allowed" \in pcols
                 THEN Pct(ZeroGames(pitcher_history, "inning_1_runs_allowed"),
                          nunique(pitcher_history))
                 ELSE Zero)
        bat_nrfi ==
            "BAT NRFI % INNING 1" :>
                (IF "inning_1_runs_scored" \in bcols
                 THEN Pct(ZeroGames(opponent_history, "inning_1_runs_scored"),
                          nunique(opponent_history))
                 ELSE Zero)
        todays_pitcher == {r \in pdf : r.game_id = game_info.game_id
                                       /\ r.pitcher_name = lookup /\ r.date = D}
        todays_opponent == {r \in bdf : r.game_id = game_info.game_id
                                        /\ r.team_id = opponent /\ r.date = D}
    \* the writes of the loop body, the latest first
    IN  TodayLoop(BATTING_METRICS_INNING, todays_opponent, bcols) @@
        TodayLoop(PITCHER_METRICS_INNING, todays_pitcher, pcols) @@
        bat_nrfi @@
        BattingMetricLoop(opponent_history, bcols, ~is_home) @@
        pitch_nrfi @@
        PitcherMetricLoop(pitcher_history, pcols, is_home) @@
        LastGameLoop(BATTING_METRICS_INNING, opponent_history, bcols) @@
        LastGameLoop(PITCHER_METRICS_INNING, pitcher_history, pcols) @@
        VenueLayer(pitcher_history, opponent_history, is_home) @@
        base @@ defaults

RECURSIVE Flatten(_)
Flatten(qq) == IF qq = << >> THEN << >> ELSE Head(qq) \o Flatten(Tail(qq))

\* analyze_games: what it returns is a DataFrame ("df", its rows), the
\* 7-tuple of the no-rows return ("tuple"), or an exception ("raise").
analyze_games(games, D, pdf, bdf, pcols, bcols) ==
    IF pdf = {} \/ bdf = {}
    THEN [kind |-> "df", error |-> None, rows |-> << >>]
    ELSE LET todo == Flatten([g \in 1..Len(games) |->
                        LET ps == pitchers_to_analyze(games[g])
                        IN  [k \in 1..Len(ps) |-> [game |-> games[g], pitcher |-> ps[k]]]])
         IN  IF todo # << >>
                /\ ~(UnguardedPitcherColumns \subseteq pcols
                     /\ UnguardedBattingColumns \subseteq bcols)
             THEN [kind |-> "raise", error |-> "KeyError", rows |-> << >>]
             ELSE IF todo = << >>
             THEN [kind |-> "tuple", error |-> None, rows |-> << >>]
             ELSE [kind |-> "df", error |-> None,
                   rows |-> [i \in 1..Len(todo) |->
                               report_entry(todo[i].game, todo[i].pitcher,
                                            D, pdf, bdf, pcols, bcols)]]

\* ------------------------------------------------------------------ classification
\* The classification with exclusive boundaries: a value equal to a threshold
\* falls into the class below.
calculate_confidence_level_exclusive(value, thresholds, comparison_type) ==
    IF comparison_type = "greater"
    THEN IF Gt(value, thresholds.high[1], thresholds.high[2]) THEN "High"
         ELSE IF Gt(value, thresholds.moderate[1], thresholds.moderate[2]) THEN "Moderate"
         ELSE "Low"
    ELSE IF comparison_type = "less"
    THEN IF Lt(value, thresholds.high[1], thresholds.high[2]) THEN "High"
         ELSE IF Lt(value, thresholds.moderate[1], thresholds.moderate[2]) THEN "Moderate"
         ELSE "Low"
    ELSE "Low"

\* calculate_confidence_level(value, {'high': h, 'moderate': m}, comparison_type);
\* a threshold is a pair <<numerator, denominator>>.
calculate_confidence_level(value, thresholds, comparison_type) ==
    IF comparison_type = "greater"
    THEN IF Ge(value, thresholds.high[1], thresholds.high[2]) THEN "High"
         ELSE IF Ge(value, thresholds.moderate[1], thresholds.moderate[2]) THEN "Moderate"
         ELSE "Low"
    ELSE IF comparison_type = "less"
    THEN IF Le(value, thresholds.high[1], thresholds.high[2]) THEN "High"
         ELSE IF Le(value, thresholds.moderate[1], thresholds.moderate[2]) THEN "Moderate"
         ELSE "Low"
    ELSE "Low"

Thresholds(h, m) == [high |-> h, moderate |-> m]

\* The NRFI/YRFI rule without the run-prevention signal.
nrfi_yrfi_without_prevention(pitcher_nrfi_pct, opponent_nrfi_pct, prevention_conf) ==
    IF Ge(pitcher_nrfi_pct, 70, 1) /\ Ge(opponent_nrfi_pct, 70, 1) THEN "High (NRFI)"
    ELSE IF Ge(pitcher_nrfi_pct, 60, 1) /\ Ge(opponent_nrfi_pct, 60, 1)
    THEN "Moderate (leaning NRFI)"
    ELSE IF Le(pitcher_nrfi_pct, 30, 1) /\ Le(opponent_nrfi_pct, 30, 1) THEN "High (YRFI)"
    ELSE IF Le(pitcher_nrfi_pct, 40, 1) /\ Le(opponent_nrfi_pct, 40, 1)
    THEN "Moderate (leaning YRFI)"
    ELSE "Low"

calculate_overall_nrfi_yrfi_confidence(pitcher_nrfi_pct, opponent_nrfi_pct, prevention_conf) ==
    LET run_prevention_score == MapGet(confidence_map, prevention_conf)
        pitcher_yrfi_pct == Complement(pitcher_nrfi_pct)
        opponent_yrfi_pct == Complement(opponent_nrfi_pct)
    IN  IF Ge(pitcher_nrfi_pct, 70, 1) /\ Ge(opponent_nrfi_pct, 70, 1)
           /\ run_prevention_score >= 4
        THEN "High (NRFI)"
        ELSE IF Ge(pitcher_nrfi_pct, 60, 1) /\ Ge(opponent_nrfi_pct, 60, 1)
                /\ run_prevention_score >= 2
        THEN "Moderate (leaning NRFI)"
        ELSE IF Ge(pitcher_yrfi_pct, 70, 1) /\ Ge(opponent_yrfi_pct, 70, 1)
        THEN "High (YRFI)"
        ELSE IF Ge(pitcher_yrfi_pct, 60, 1) /\ Ge(opponent_yrfi_pct, 60, 1)
        THEN "Moderate (leaning YRFI)"
        ELSE "Low"

calculate_overall_nrhi_confidence(pitcher_nrhi_pct, batting_nrhi_pct) ==
    IF Ge(pitcher_nrhi_pct, 70, 1) /\ Ge(batting_nrhi_pct, 70, 1) THEN "High (Under)"
    ELSE IF Ge(pitcher_nrhi_pct, 60, 1) /\ Ge(batting_nrhi_pct, 60, 1)
    THEN "Moderate (leaning Under)"
    ELSE IF Le(pitcher_nrhi_pct, 30, 1) /\ Le(batting_nrhi_pct, 30, 1) THEN "High (Over)"
    ELSE IF Le(pitcher_nrhi_pct, 40, 1) /\ Le(batting_nrhi_pct, 40, 1)
    THEN "Moderate (leaning Over)"
    ELSE "Neutral"

\* A rule table that answers Neutral whenever the two sides carry the same label.
over_under_neutral_on_equal(pitcher_conf, opponent_conf) ==
    LET pitcher_score == MapGet(confidence_map, pitcher_conf)
        opponent_score == MapGet(confidence_map, opponent_conf)
    IN  IF pitcher_score = opponent_score THEN "Neutral"
        ELSE IF pitcher_score = 6 /\ opponent_score = 2 THEN "High (Under)"
        ELSE IF pitcher_score >= 4 /\ opponent_score <= 4 THEN "Moderate (leaning Under)"
        ELSE IF pitcher_score = 2 /\ opponent_score = 6 THEN "High (Over)"
        ELSE IF pitcher_score <= 4 /\ opponent_score >= 4 THEN "Moderate (leaning Over)"
        ELSE "Neutral"

\* A rule table whose Under branch looks at the pitcher side only.
over_under_pitcher_side_only(pitcher_conf, opponent_conf) ==
    LET pitcher_score == MapGet(confidence_map, pitcher_conf)
        opponent_score == MapGet(confidence_map, opponent_conf)
    IN  IF pitcher_score = 6 /\ opponent_score = 2 THEN "High (Under)"
        ELSE IF pitcher_score >= 4 THEN "Moderate (leaning Under)"
        ELSE IF pitcher_score = 2 /\ opponent_score = 6 THEN "High (Over)"
        ELSE IF pitcher_score <= 4 /\ opponent_score >= 4 THEN "Moderate (leaning Over)"
        ELSE "Neutral"

\* Scores are the weights of confidence_map (in halves: 6 is 3, 4 is 2, 2 is 1).
calculate_overall_over_under_confidence(pitcher_conf, opponent_conf) ==
    LET pitcher_score == MapGet(confidence_map, pitcher_conf)
        opponent_score == MapGet(confidence_map, opponent_conf)
    IN  IF pitcher_score = 6 /\ opponent_score = 2 THEN "High (Under)"
        ELSE IF pitcher_score >= 4 /\ opponent_score <= 4 THEN "Moderate (leaning Under)"
        ELSE IF pitcher_score = 2 /\ opponent_score = 6 THEN "High (Over)"
        ELSE IF pitcher_score <= 4 /\ opponent_score >= 4 THEN "Moderate (leaning Over)"
        ELSE "Neutral"

\* calculate_k_bet_and_confidence: one side's K bet.
KBet(venue_k_rate, overall_k_rate, k_conf) ==
    IF Ge(venue_k_rate, 80, 1) /\ Ge(overall_k_rate, 80, 1) THEN "HIGH OVER"
    ELSE IF Ge(venue_k_rate, 80, 1) \/ Ge(overall_k_rate, 80, 1) THEN "OVER"
    ELSE IF k_conf = "Low" THEN "Under K Bet"
    ELSE "Neutral"

\* An overall K confidence that escalates to the top label from three rates.
OverallKConfidenceFromThree(row) ==
    LET hit(k) == IF Ge(row[k], 80, 1) THEN 1 ELSE 0
        k_rate_high_80_count ==
            hit("VENUE PITCH K RATE %") + hit("PITCH K OVERALL RATE %")
            + hit("VENUE OPP K RATE %") + hit("OPP K OVERALL RATE %")
    IN  IF k_rate_high_80_count >= 3 THEN "HIGH OVER"
        ELSE IF k_rate_high_80_count >= 2 THEN "High"
        ELSE IF row["PITCH K CONF"].s = "High" /\ row["OPP K CONF"].s = "High" THEN "High"
        ELSE IF row["PITCH K CONF"].s = "Low" /\ row["OPP K CONF"].s = "Low" THEN "Low"
        ELSE "Moderate"

\* calculate_k_bet_and_confidence: 'Overall K CONFIDENCE'.
OverallKConfidence(row) ==
    LET hit(k) == IF Ge(row[k], 80, 1) THEN 1 ELSE 0
        k_rate_high_80_count ==
            hit("VENUE PITCH K RATE %") + hit("PITCH K OVERALL RATE %")
            + hit("VENUE OPP K RATE %") + hit("OPP K OVERALL RATE %")
    IN  IF k_rate_high_80_count = 4 THEN "HIGH OVER"
        ELSE IF k_rate_high_80_count >= 2 THEN "High"
        ELSE IF row["PITCH K CONF"].s = "High" /\ row["OPP K CONF"].s = "High" THEN "High"
        ELSE IF row["PITCH K CONF"].s = "Low" /\ row["OPP K CONF"].s = "Low" THEN "Low"
        ELSE "Moderate"

\* "Low" if x <= 0.35 else "Moderate" if 0.36 <= x <= 0.65 else "High"
OppRunsPerGameConf(x) ==
    IF Le(x, 35, 100) THEN "Low"
    ELSE IF Ge(x, 36, 100) /\ Le(x, 65, 100) THEN "Moderate"
    ELSE "High"

\* The bet of the pitcher side and of the opponent side for a composite label.
PitcherSideBet(x, under, over) ==
    IF x = "High (Under)" THEN under ELSE IF x = "High (Over)" THEN over ELSE "Neutral"

\* An opponent bet framed against the pitcher's: Over for High (Under).
MirroredOpponentBet(x, under, over) ==
    IF x = "High (Over)" THEN under ELSE IF x = "High (Under)" THEN over ELSE "Neutral"

OpponentSideBet(x, under, over) ==
    IF x = "High (Over)" THEN over ELSE IF x = "High (Under)" THEN under ELSE "Neutral"

\* A pitcher runs bet that reads the composite the wrong way round.
PitcherRunsBetAgainstComposite(x) ==
    IF x = "High (NRFI)" THEN "Over Runs Bet"
    ELSE IF x = "High (YRFI)" THEN "Under Runs Bet" ELSE "Neutral"

PitcherRunsBet(x) ==
    IF x = "High (NRFI)" THEN "Under Runs Bet"
    ELSE IF x = "High (YRFI)" THEN "Over Runs Bet" ELSE "Neutral"

OpponentRunsBet(x) ==
    IF x = "High (YRFI)" THEN "Over Runs Bet"
    ELSE IF x = "High (NRFI)" THEN "Under Runs Bet" ELSE "Neutral"

\* "High" if x >= 75 else "Moderate" if 50 <= x <= 74 else "Low"
NoRunPctConf(x) ==
    IF Ge(x, 75, 1) THEN "High"
    ELSE IF Ge(x, 50, 1) /\ Le(x, 74, 1) THEN "Moderate"
    ELSE "Low"

\* The Over/Under metrics other than Hits: their columns, thresholds and bets.
OverUnderMetric(name, pcol, pthr, ocol, othr, pconf, oconf, overall, pbet, obet, under, over) ==
    [name |-> name, pitcher_col |-> pcol, pitcher_thresholds |-> pthr,
     opponent_col |-> ocol, opponent_thresholds |-> othr,
     pitcher_conf_col |-> pconf, opponent_conf_col |-> oconf,
     overall_conf_col |-> overall, bet_col |-> pbet, opponent_bet_col |-> obet,
     under |-> under, over |-> over]

OverUnderMetrics == <<
    OverUnderMetric("Walks", "PITCH WALKS ALLOWED PER GAME %",
        Thresholds(<<8, 1>>, <<12, 1>>),
        "OPP WALKS BATTING/GM", Thresholds(<<5, 10>>, <<3, 10>>),
        "PITCH WALKS ALLOWED CONF", "OPP WALKS BATTING CONF", "Overall WALKS CONFIDENCE",
        "PITCHER WALKS BET", "OPPONENT WALKS BET", "Under Walks Bet", "Over Walks Bet"),
    OverUnderMetric("Singles", "PITCH SINGLES ALLOWED/GM",
        Thresholds(<<3, 10>>, <<6, 10>>),
        "OPP SINGLES BATTING/GM", Thresholds(<<6, 10>>, <<3, 10>>),
        "PITCH SINGLES ALLOWED CONF", "OPP SINGLES BATTING CONF", "Overall SINGLES CONFIDENCE",
        "PITCHER SINGLES BET", "OPPONENT SINGLES BET", "Under Singles Bet", "Over Singles Bet"),
    OverUnderMetric("Doubles", "PITCH DOUBLES ALLOWED/GM",
        Thresholds(<<5, 100>>, <<15, 100>>),
        "OPP DOUBLES BATTING/GM", Thresholds(<<15, 100>>, <<5, 100>>),
        "PITCH DOUBLES ALLOWED CONF", "OPP DOUBLES BATTING CONF", "Overall DOUBLES CONFIDENCE",
        "PITCHER DOUBLES BET", "OPPONENT DOUBLES BET", "Under Doubles Bet", "Over Doubles Bet"),
    OverUnderMetric("Triples", "PITCH TRIPLES ALLOWED/GM",
        Thresholds(<<1, 100>>, <<3, 100>>),
        "OPP TRIPLES BATTING/GM", Thresholds(<<3, 100>>, <<1, 100>>),
        "PITCH TRIPLES ALLOWED CONF", "OPP TRIPLES BATTING CONF", "Overall TRIPLES CONFIDENCE",
        "PITCHER TRIPLES BET", "OPPONENT TRIPLES BET", "Under Triples Bet", "Over Triples Bet"),
    OverUnderMetric("Homers", "PITCH HOMERS ALLOWED/GM",
        Thresholds(<<5, 100>>, <<15, 100>>),
        "OPP HOMERS BATTING/GM", Thresholds(<<15, 100>>, <<5, 100>>),
        "PITCH HOMERS ALLOWED CONF", "OPP HOMERS BATTING CONF", "Overall HOMERS CONFIDENCE",
        "PITCHER HOMERS BET", "OPPONENT HOMERS BET", "Under Homers Bet", "Over Homers Bet"),
    OverUnderMetric("Total Bases", "PITCH TOTAL BASES ALLOWED/GM",
        Thresholds(<<1, 1>>, <<2, 1>>),
        "OPP TOTAL BASES BATTING/GM", Thresholds(<<2, 1>>, <<1, 1>>),
        "PITCH TOTAL BASES ALLOWED CONF", "OPP TOTAL BASES BATTING CONF",
        "Overall TOTAL BASES CONFIDENCE",
        "PITCHER TOTAL BASES BET", "OPPONENT TOTAL BASES BET",
        "Under Total Bases Bet", "Over Total Bases Bet") >>

\* df.rename(columns={old: new}) on one row.
Rename(row, old, new) ==
    IF old \in DOMAIN row
    THEN [k \in (DOMAIN row \ {old}) \cup {new} |-> IF k = new THEN row[old] ELSE row[k]]
    ELSE row

\* A column the frame lacks is added with a default.
EnsureColumn(row, key, value) == IF key \in DOMAIN row THEN row ELSE Put(row, key, value)

\* The columns of one Over/Under metric other than Hits: the two confidences,
\* the composite and the two bets.
OverUnderColumns(row, m) ==
    LET pconf == calculate_confidence_level(row[m.pitcher_col], m.pitcher_thresholds, "less")
        oconf == calculate_confidence_level(row[m.opponent_col], m.opponent_thresholds, "greater")
        overall == calculate_overall_over_under_confidence(pconf, oconf)
    IN  (m.pitcher_conf_col :> Str(pconf)) @@
        (m.opponent_conf_col :> Str(oconf)) @@
        (m.overall_conf_col :> Str(overall)) @@
        (m.bet_col :> Str(PitcherSideBet(overall, m.under, m.over))) @@
        (m.opponent_bet_col :> Str(OpponentSideBet(overall, m.under, m.over)))

\* The columns of Walks .. Total Bases.
OverUnderLayer(row) ==
    MergeSteps([i \in 1..Len(OverUnderMetrics) |-> OverUnderColumns(row, OverUnderMetrics[i])])

\* The columns the frame is given before the confidences are computed: the
\* NRHI and venue K-rate columns it lacks, and the two renames.
PreparedRow(row0) ==
    LET a1 == EnsureColumn(row0, "PITCH NRHI % INNING 1", Zero)
        a2 == EnsureColumn(a1, "PITCHER VENUE NRHI % INNING 1", Zero)
        a3 == EnsureColumn(a2, "BAT NRHI % INNING 1", Zero)
        a4 == EnsureColumn(a3, "BATTER VENUE NRHI % INNING 1", Zero)
        a5 == EnsureColumn(EnsureColumn(a4, "VENUE PITCH K RATE %", Zero),
                           "VENUE OPP K RATE %", Zero)
    IN  Rename(Rename(a5, "PITCH K RATE %", "PITCH K OVERALL RATE %"),
               "OPP K RATE %", "OPP K OVERALL RATE %")

\* Strikeout columns whose opponent bet is graded on the pitcher's rates.
StrikeoutLayerOfThePitcher(row) ==
    LET pitch_k_conf == IF Ge(row["PITCH K OVERALL RATE %"], 25, 1) THEN "High"
                        ELSE IF Ge(row["PITCH K OVERALL RATE %"], 15, 1) THEN "Moderate"
                        ELSE "Low"
        opp_k_conf == IF Ge(row["OPP K OVERALL RATE %"], 25, 1) THEN "High"
                      ELSE IF Le(row["OPP K OVERALL RATE %"], 15, 1) THEN "Low"
                      ELSE "Moderate"
        confs == ("PITCH K CONF" :> Str(pitch_k_conf)) @@ ("OPP K CONF" :> Str(opp_k_conf))
    IN  ("PITCHER K BET" :>
            Str(KBet(row["VENUE PITCH K RATE %"], row["PITCH K OVERALL RATE %"],
                     pitch_k_conf))) @@
        ("OPPONENT K BET" :>
            Str(KBet(row["VENUE PITCH K RATE %"], row["PITCH K OVERALL RATE %"],
                     opp_k_conf))) @@
        ("Overall K CONFIDENCE" :> Str(OverallKConfidence(confs @@ row))) @@
        confs

\* The strikeout columns.
StrikeoutLayer(row) ==
    LET pitch_k_conf == IF Ge(row["PITCH K OVERALL RATE %"], 25, 1) THEN "High"
                        ELSE IF Ge(row["PITCH K OVERALL RATE %"], 15, 1) THEN "Moderate"
                        ELSE "Low"
        opp_k_conf == IF Ge(row["OPP K OVERALL RATE %"], 25, 1) THEN "High"
                      ELSE IF Le(row["OPP K OVERALL RATE %"], 15, 1) THEN "Low"
                      ELSE "Moderate"
        confs == ("PITCH K CONF" :> Str(pitch_k_conf)) @@ ("OPP K CONF" :> Str(opp_k_conf))
    IN  ("PITCHER K BET" :>
            Str(KBet(row["VENUE PITCH K RATE %"], row["PITCH K OVERALL RATE %"],
                     pitch_k_conf))) @@
        ("OPPONENT K BET" :>
            Str(KBet(row["VENUE OPP K RATE %"], row["OPP K OVERALL RATE %"], opp_k_conf))) @@
        ("Overall K CONFIDENCE" :> Str(OverallKConfidence(confs @@ row))) @@
        confs

\* The runs columns.
RunsLayer(row) ==
    LET prevention ==
            IF Lt(row["PITCH RUNS ALLOWED PER GAME %"], 50, 1)
               /\ Gt(row["PITCH NRFI % INNING 1"], 70, 1)
               /\ Lt(row["OPP R/G"], 4, 10)
            THEN "High"
            ELSE IF Gt(row["PITCH RUNS ALLOWED PER GAME %"], 100, 1)
                    /\ Lt(row["PITCH NRFI % INNING 1"], 50, 1)
                    /\ Gt(row["OPP R/G"], 7, 10)
            THEN "Low"
            ELSE "Moderate"
        overall == calculate_overall_nrfi_yrfi_confidence(
                       row["PITCHER VENUE NRFI % INNING 1"],
                       row["OPPONENT VENUE NRFI % INNING 1"], prevention)
    IN  ("PITCH NRFI CONF" :> Str(NoRunPctConf(row["PITCH NRFI % INNING 1"]))) @@
        ("OPP R/G CONF" :> Str(OppRunsPerGameConf(row["OPP R/G"]))) @@
        ("PITCH RUNS ALLOWED CONF" :>
            Str(IF Le(row["PITCH RUNS ALLOWED PER GAME %"], 25, 1) THEN "High"
                ELSE IF Le(row["PITCH RUNS ALLOWED PER GAME %"], 50, 1) THEN "Moderate"
                ELSE "Low")) @@
        ("Overall Run Prevention Confidence" :> Str(prevention)) @@
        ("Overall CONFIDENCE FOR NRFI AND YRFI" :> Str(overall)) @@
        ("PITCHER RUNS BET" :> Str(PitcherRunsBet(overall))) @@
        ("OPPONENT RUNS BET" :> Str(OpponentRunsBet(overall)))

\* The hits columns.
HitsLayer(row) ==
    LET overall == calculate_overall_nrhi_confidence(row["PITCH NRHI % INNING 1"],
                                                     row["BAT NRHI % INNING 1"])
    IN  ("PITCH NRHI CONF" :> Str(NoRunPctConf(row["PITCH NRHI % INNING 1"]))) @@
        ("PITCHER VENUE NRHI CONF" :>
            Str(NoRunPctConf(row["PITCHER VENUE NRHI % INNING 1"]))) @@
        ("BAT NRHI CONF" :> Str(NoRunPctConf(row["BAT NRHI % INNING 1"]))) @@
        ("BATTER VENUE NRHI CONF" :>
            Str(NoRunPctConf(row["BATTER VENUE NRHI % INNING 1"]))) @@
        ("Overall HITS CONFIDENCE" :> Str(overall)) @@
        ("PITCH HITS ALLOWED CONF" :>
            Str(IF Le(row["PITCH HIT AVG #"], 5, 10) THEN "High"
                ELSE IF Le(row["PITCH HIT AVG #"], 1, 1) THEN "Moderate" ELSE "Low")) @@
        ("OPP HITS BATTING CONF" :>
            Str(IF Le(row["BAT HIT AVG #"], 5, 10) THEN "Low"
                ELSE IF Le(row["BAT HIT AVG #"], 1, 1) THEN "Moderate" ELSE "High")) @@
        ("PITCHER HITS BET" :> Str(PitcherSideBet(overall, "Under Hits Bet", "Over Hits Bet"))) @@
        ("OPPONENT HITS BET" :> Str(OpponentSideBet(overall, "Under Hits Bet", "Over Hits Bet")))

\* The classification and recommendation columns of one report row
\* (generate_report_data_and_pdfs, from the column initialisation to the bets):
\* every computed column reads the aggregates of the prepared row.
ClassifyRow(row0) ==
    LET row == PreparedRow(row0)
    IN  OverUnderLayer(row) @@ HitsLayer(row) @@ RunsLayer(row) @@ StrikeoutLayer(row) @@ row

\* ------------------------------------------------------------------ parlays
\* The positions of the rows of a table whose column holds one of the labels
\* (report_df[report_df[col].isin(labels)]), in table order.
RECURSIVE QualifyingFrom(_, _, _, _)
QualifyingFrom(df, col, labels, i) ==
    IF i > Len(df) THEN << >>
    ELSE (IF df[i][col].s \in labels THEN << i >> ELSE << >>)
         \o QualifyingFrom(df, col, labels, i + 1)

Qualifying(df, col, labels) == QualifyingFrom(df, col, labels, 1)

\* The pairs <<records[i], records[j]>>, i < j, from pair (i, j) on, in the
\* order itertools.combinations yields them.
RECURSIVE CombinationsFrom(_, _, _)
CombinationsFrom(records, i, j) ==
    IF i >= Len(records) THEN << >>
    ELSE IF j > Len(records) THEN CombinationsFrom(records, i + 1, i + 2)
    ELSE << << records[i], records[j] >> >> \o CombinationsFrom(records, i, j + 1)

\* The pairs with i <= j: a record is also paired with itself.
RECURSIVE WithReplacementFrom(_, _, _)
WithReplacementFrom(records, i, j) ==
    IF i > Len(records) THEN << >>
    ELSE IF j > Len(records) THEN WithReplacementFrom(records, i + 1, i + 1)
    ELSE << << records[i], records[j] >> >> \o WithReplacementFrom(records, i, j + 1)

combinations_with_replacement(records) == WithReplacementFrom(records, 1, 1)

\* itertools.combinations(records, 2)
combinations(records) == CombinationsFrom(records, 1, 2)

\* score order of two exact rationals
NumLt(x, y) == x.n * y.d < y.n * x.d

\* One step of the sort: p goes behind every entry whose score is not lower.
RECURSIVE InsertByScore(_, _)
InsertByScore(sorted, p) ==
    IF sorted = << >> THEN << p >>
    ELSE IF NumLt(Head(sorted).score, p.score) THEN << p >> \o sorted
    ELSE << Head(sorted) >> \o InsertByScore(Tail(sorted), p)

RECURSIVE SortInto(_, _)
SortInto(sorted, rest) ==
    IF rest = << >> THEN sorted
    ELSE SortInto(InsertByScore(sorted, Head(rest)), Tail(rest))

\* A sort that puts p in front of the entries of equal score.
RECURSIVE InsertBeforeEqual(_, _)
InsertBeforeEqual(sorted, p) ==
    IF sorted = << >> THEN << p >>
    ELSE IF ~NumLt(p.score, Head(sorted).score) THEN << p >> \o sorted
    ELSE << Head(sorted) >> \o InsertBeforeEqual(Tail(sorted), p)

RECURSIVE SortEqualLastFirst(_, _)
SortEqualLastFirst(sorted, rest) ==
    IF rest = << >> THEN sorted
    ELSE SortEqualLastFirst(InsertBeforeEqual(sorted, Head(rest)), Tail(rest))

sort_by_score_unstable(parlay_list) == SortEqualLastFirst(<< >>, parlay_list)

\* The list left in the order the combinations were generated.
generation_order(parlay_list) == parlay_list

\* list.sort(key=lambda x: x['score'], reverse=True): stable, highest first.
sort_by_score(parlay_list) == SortInto(<< >>, parlay_list)

\* A parlay category: the column it reads, the labels that qualify, the map
\* that weighs them and the tag of its parlay strings ("" for the pitcher).
ParlayCategory(name, col, labels, map, tag) ==
    [name |-> name, col |-> col, labels |-> labels, map |-> map, tag |-> tag]

OverUnderNames == << "Hits", "Walks", "Singles", "Doubles", "Triples", "Homers", "Total Bases" >>

OverallCol(metric_name) ==
    CASE metric_name = "Hits" -> "Overall HITS CONFIDENCE"
      [] metric_name = "Walks" -> "Overall WALKS CONFIDENCE"
      [] metric_name = "Singles" -> "Overall SINGLES CONFIDENCE"
      [] metric_name = "Doubles" -> "Overall DOUBLES CONFIDENCE"
      [] metric_name = "Triples" -> "Overall TRIPLES CONFIDENCE"
      [] metric_name = "Homers" -> "Overall HOMERS CONFIDENCE"
      [] metric_name = "Total Bases" -> "Overall TOTAL BASES CONFIDENCE"

\* Categories whose Strikeout list also takes the top label.
ParlayCategoriesWithTopLabel ==
    { ParlayCategory("Strikeout Parlays", "Overall K CONFIDENCE", {"High", "HIGH OVER"},
                     confidence_map, ""),
      ParlayCategory("NRFI Parlays", "Overall CONFIDENCE FOR NRFI AND YRFI", {"High (NRFI)"},
                     nrfi_yrfi_map, "NRFI"),
      ParlayCategory("YRFI Parlays", "Overall CONFIDENCE FOR NRFI AND YRFI",
                     {"High (YRFI)", "Moderate (leaning YRFI)"}, nrfi_yrfi_map, "YRFI") }
    \cup { ParlayCategory(OverUnderNames[i] \o " Under Parlays", OverallCol(OverUnderNames[i]),
                          {"High (Under)"}, over_under_map, OverUnderNames[i] \o " Under")
           : i \in 1..Len(OverUnderNames) }
    \cup { ParlayCategory(OverUnderNames[i] \o " Over Parlays", OverallCol(OverUnderNames[i]),
                          {"High (Over)"}, over_under_map, OverUnderNames[i] \o " Over")
           : i \in 1..Len(OverUnderNames) }

ParlayCategories ==
    { ParlayCategory("Strikeout Parlays", "Overall K CONFIDENCE", {"High"},
                     confidence_map, ""),
      ParlayCategory("NRFI Parlays", "Overall CONFIDENCE FOR NRFI AND YRFI", {"High (NRFI)"},
                     nrfi_yrfi_map, "NRFI"),
      ParlayCategory("YRFI Parlays", "Overall CONFIDENCE FOR NRFI AND YRFI",
                     {"High (YRFI)", "Moderate (leaning YRFI)"}, nrfi_yrfi_map, "YRFI") }
    \cup { ParlayCategory(OverUnderNames[i] \o " Under Parlays", OverallCol(OverUnderNames[i]),
                          {"High (Under)"}, over_under_map, OverUnderNames[i] \o " Under")
           : i \in 1..Len(OverUnderNames) }
    \cup { ParlayCategory(OverUnderNames[i] \o " Over Parlays", OverallCol(OverUnderNames[i]),
                          {"High (Over)"}, over_under_map, OverUnderNames[i] \o " Over")
           : i \in 1..Len(OverUnderNames) }

CategoryNames == {c.name : c \in ParlayCategories}

CategoryOf(name) == CHOOSE c \in ParlayCategories : c.name = name

\* One side of a parlay string.
ParlayLeg(row, tag) ==
    IF tag = "" THEN row["Game"].s \o " (" \o row["Pitcher"].s \o ")"
    ELSE row["Game"].s \o " (" \o tag \o ")"

\* A parlay scored by the sum of the two weights.
ParlayScoredBySum(df, cat, combo) ==
    [games |-> ParlayLeg(df[combo[1]], cat.tag) \o " & " \o ParlayLeg(df[combo[2]], cat.tag),
     score |-> Num(MapGet(cat.map, df[combo[1]][cat.col].s)
                   + MapGet(cat.map, df[combo[2]][cat.col].s), 2),
     combo |-> combo]

\* The parlay of one combination: its string, its score (the mean of the two
\* weights, which the maps hold in halves) and the table positions of its rows.
Parlay(df, cat, combo) ==
    [games |-> ParlayLeg(df[combo[1]], cat.tag) \o " & " \o ParlayLeg(df[combo[2]], cat.tag),
     score |-> Num(MapGet(cat.map, df[combo[1]][cat.col].s)
                   + MapGet(cat.map, df[combo[2]][cat.col].s), 4),
     combo |-> combo]

\* The list of one category: empty below two qualifying rows, else one
\* parlay per combination, sorted.
ParlayList(df, cat) ==
    LET records == Qualifying(df, cat.col, cat.labels)
        combos == combinations(records)
    IN  IF Len(records) >= 2
        THEN sort_by_score([k \in 1..Len(combos) |-> Parlay(df, cat, combos[k])])
        ELSE << >>

generate_ranked_parlays(df) == [name \in CategoryNames |-> ParlayList(df, CategoryOf(name))]

\* ------------------------------------------------------------------ Top-4 lists
\* One sort column of sort_values: the column, the map its key function
\* applies (<< >> when the column sorts by its own value) and the direction.
SortBy(col, map, ascending) == [col |-> col, map |-> map, ascending |-> ascending]

\* The key of a row in one sort column; a label the map lacks is NaN.
SortKey(row, by) ==
    IF by.map = << >> THEN [nan |-> FALSE, v |-> row[by.col]]
    ELSE IF row[by.col].s \in DOMAIN by.map
         THEN [nan |-> FALSE, v |-> Whole(by.map[row[by.col].s])]
         ELSE [nan |-> TRUE, v |-> Zero]

\* Whether row a sorts strictly before row b in one column (NaN sorts last).
KeyBefore(a, b, by) ==
    LET ka == SortKey(a, by)
        kb == SortKey(b, by)
    IN  IF ka.nan \/ kb.nan THEN ~ka.nan /\ kb.nan
        ELSE IF by.ascending THEN NumLt(ka.v, kb.v) ELSE NumLt(kb.v, ka.v)

\* Whether row a sorts strictly before row b in the columns from the i-th on.
RECURSIVE RowBefore(_, _, _, _)
RowBefore(a, b, bys, i) ==
    IF i > Len(bys) THEN FALSE
    ELSE IF KeyBefore(a, b, bys[i]) THEN TRUE
    ELSE IF KeyBefore(b, a, bys[i]) THEN FALSE
    ELSE RowBefore(a, b, bys, i + 1)

RECURSIVE InsertRow(_, _, _)
InsertRow(sorted, row, bys) ==
    IF sorted = << >> THEN << row >>
    ELSE IF RowBefore(row, Head(sorted), bys, 1) THEN << row >> \o sorted
    ELSE << Head(sorted) >> \o InsertRow(Tail(sorted), row, bys)

RECURSIVE SortRowsInto(_, _, _)
SortRowsInto(sorted, rest, bys) ==
    IF rest = << >> THEN sorted
    ELSE SortRowsInto(InsertRow(sorted, Head(rest), bys), Tail(rest), bys)

\* The rows left in table order.
table_order(rows, bys) == rows

\* df.sort_values(by=..., key=..., ascending=...): rows that tie keep table order.
sort_values(rows, bys) == SortRowsInto(<< >>, rows, bys)

\* df.head(4)
head(rows) == IF Len(rows) > 4 THEN SubSeq(rows, 1, 4) ELSE rows

\* df[cols].to_dict('records')
to_dict(rows, cols) == [i \in 1..Len(rows) |-> [k \in cols |-> rows[i][k]]]

\* df[df[col].isin(labels)]
isin(rows, col, labels) == SelectSeq(rows, LAMBDA r : r[col].s \in labels)

strikeout_recommendations(df) ==
    "Top 4 Strikeout" :>
        to_dict(head(sort_values(df,
                    << SortBy("Overall K CONFIDENCE", confidence_map, FALSE),
                       SortBy("PITCH K OVERALL RATE %", << >>, FALSE) >>)),
                {"Game", "Pitcher", "Opponent", "Overall K CONFIDENCE",
                 "PITCH K OVERALL RATE %", "PITCHER K BET", "OPPONENT K BET"})

RunsCols ==
    {"Game", "Pitcher", "Opponent", "Overall CONFIDENCE FOR NRFI AND YRFI",
     "PITCHER RUNS BET", "OPPONENT RUNS BET"}

runs_recommendations(df) ==
    ("Top 4 Run Prevention" :>
        to_dict(head(sort_values(df,
                    << SortBy("Overall Run Prevention Confidence", confidence_map, FALSE),
                       SortBy("PITCH RUNS ALLOWED PER GAME %", << >>, TRUE) >>)),
                {"Game", "Pitcher", "Opponent", "Overall Run Prevention Confidence",
                 "PITCH RUNS ALLOWED PER GAME %", "TODAY PITCHER RUNS ALLOWED INNING 1",
                 "OPP R/G", "PITCH NRFI % INNING 1"})) @@
    ("Top 4 NRFI" :>
        to_dict(head(sort_values(df,
                    << SortBy("Overall CONFIDENCE FOR NRFI AND YRFI", nrfi_yrfi_map, FALSE) >>)),
                RunsCols)) @@
    ("Top 4 YRFI" :>
        to_dict(head(sort_values(
                    isin(df, "Overall CONFIDENCE FOR NRFI AND YRFI",
                         {"High (YRFI)", "Moderate (leaning YRFI)"}),
                    << SortBy("Overall CONFIDENCE FOR NRFI AND YRFI", nrfi_yrfi_map, FALSE) >>)),
                RunsCols))

\* over_under_metrics_config of the recommendation stage.
RecMetric(name, overall, pcol, ocol, bet, obet) ==
    [name |-> name, overall_conf_col |-> overall, pitcher_metric_col |-> pcol,
     opponent_metric_col |-> ocol, bet_col |-> bet, opponent_bet_col |-> obet]

over_under_metrics_config ==
    << RecMetric("Hits", "Overall HITS CONFIDENCE", "PITCH NRHI % INNING 1",
                 "BAT NRHI % INNING 1", "PITCHER HITS BET", "OPPONENT HITS BET") >>
    \o [i \in 1..Len(OverUnderMetrics) |->
            RecMetric(OverUnderMetrics[i].name, OverUnderMetrics[i].overall_conf_col,
                      OverUnderMetrics[i].pitcher_col, OverUnderMetrics[i].opponent_col,
                      OverUnderMetrics[i].bet_col, OverUnderMetrics[i].opponent_bet_col)]

RecCols(m) ==
    {"Game", "Pitcher", "Opponent", m.overall_conf_col, m.pitcher_metric_col,
     m.opponent_metric_col, m.bet_col, m.opponent_bet_col}

\* "Top 4 <metric> Under" (under = TRUE) or "Top 4 <metric> Over".
TopOverUnder(df, m, under) ==
    IF m.name = "Hits"
    THEN to_dict(head(sort_values(
                    isin(df, m.overall_conf_col,
                         IF under THEN {"High (Under)", "Moderate (leaning Under)"}
                         ELSE {"High (Over)", "Moderate (leaning Over)"}),
                    << SortBy(m.overall_conf_col, over_under_map, FALSE) >>)),
                 RecCols(m))
    ELSE to_dict(head(sort_values(
                    isin(df, m.overall_conf_col,
                         IF under THEN {"High (Under)"} ELSE {"High (Over)"}),
                    << SortBy(m.overall_conf_col, over_under_map, FALSE),
                       SortBy(m.pitcher_metric_col, << >>, under),
                       SortBy(m.opponent_metric_col, << >>, under) >>)),
                 RecCols(m))

RecNames ==
    {"Top 4 " \o OverUnderNames[i] \o " Under" : i \in 1..Len(OverUnderNames)} \cup
    {"Top 4 " \o OverUnderNames[i] \o " Over" : i \in 1..Len(OverUnderNames)}

other_metrics_recs(df) ==
    [name \in RecNames |->
        LET i == CHOOSE k \in 1..Len(over_under_metrics_config) :
                    name \in {"Top 4 " \o over_under_metrics_config[k].name \o " Under",
                              "Top 4 " \o over_under_metrics_config[k].name \o " Over"}
            m == over_under_metrics_config[i]
        IN  TopOverUnder(df, m, name = "Top 4 " \o m.name \o " Under")]

\* The three recommendation maps, as one map from list name to list.
recommendations_of(df) ==
    strikeout_recommendations(df) @@ runs_recommendations(df) @@ other_metrics_recs(df)

\* ------------------------------------------------------------------ report generation
EmptyResult ==
    [outcome |-> "empty", error |-> None, report_df |-> << >>,
     recommendations |-> << >>, parlays |-> << >>]

Raised(exception) ==
    [outcome |-> "raised", error |-> exception, report_df |-> << >>,
     recommendations |-> << >>, parlays |-> << >>]

\* generate_report_data_and_pdfs, from the games list on: what it returns
\* (the report table, the recommendation maps and the parlay maps) or raises.
generate_report_data_and_pdfs(games, D, pdf, bdf, pcols, bcols) ==
    IF games = << >> THEN EmptyResult
    ELSE LET analysed == analyze_games(games, D, pdf, bdf, pcols, bcols)
         IN  IF analysed.kind = "raise" THEN Raised(analysed.error)
             \* report_df.empty on the tuple of the no-rows return
             ELSE IF analysed.kind = "tuple" THEN Raised("AttributeError")
             ELSE IF analysed.rows = << >> THEN EmptyResult
             ELSE LET df == [i \in 1..Len(analysed.rows) |-> ClassifyRow(analysed.rows[i])]
                  IN  [outcome |-> "ok", error |-> None, report_df |-> df,
                       recommendations |-> recommendations_of(df),
                       parlays |-> generate_ranked_parlays(df)]

\* ------------------------------------------------------------------ actions
\* No classification function is being called on its own.
NoCall ==
    /\ call = [fn |-> None, args |-> << >>]
    /\ result = None

NoResult ==
    /\ outcome = "none"
    /\ error = None
    /\ report_df = << >>
    /\ recommendations = << >>
    /\ parlays = << >>

Init ==
    /\ master_pitcher_df = {}
    /\ master_batting_df = {}
    /\ pitcher_columns = get_inning_pitcher_columns
    /\ batting_columns = get_inning_batting_columns
    /\ report_date = 0
    /\ game_pitcher_info = << >>
    /\ pc = "idle"
    /\ NoResult
    /\ NoCall

\* The dates whose daily directory has been consolidated.
ConsolidatedDays == {r.date : r \in master_pitcher_df \cup master_batting_df}

\* consolidate_daily_data after the daily directory of date d was fetched:
\* in that day's game Cole pitched (at home or away) against DET, and the
\* inning went as the profile says; the pitcher file and the batting file of
\* the day each add their row.
consolidate_daily_data(d, home, profile) ==
    /\ pc = "idle"
    /\ d \notin ConsolidatedDays
    /\ Cardinality(ConsolidatedDays) < MaxDays
    /\ master_pitcher_df' = master_pitcher_df \cup {PitcherFact(d, home, profile)}
    /\ master_batting_df' = master_batting_df \cup {BattingFact(d, ~home, profile)}
    /\ UNCHANGED << pitcher_columns, batting_columns, report_date, game_pitcher_info, pc,
                    outcome, error, report_df, recommendations, parlays, call, result >>

\* A request whose row list is not local to the call: it may start while the
\* rows of the previous request are still there, and adds its rows to them.
GenerateReportKeepingRows(D, games) ==
    /\ pc \in {"idle", "returned"}
    /\ \E r \in {generate_report_data_and_pdfs(games, D, master_pitcher_df, master_batting_df,
                                               pitcher_columns, batting_columns)} :
           /\ outcome' = r.outcome
           /\ error' = r.error
           /\ report_df' = report_df \o r.report_df
           /\ recommendations' = recommendations_of(report_df \o r.report_df)
           /\ parlays' = generate_ranked_parlays(report_df \o r.report_df)
    /\ report_date' = D
    /\ game_pitcher_info' = games
    /\ pc' = "returned"
    /\ UNCHANGED << master_pitcher_df, master_batting_df, pitcher_columns, batting_columns,
                    call, result >>

\* One request: generate_report_data_and_pdfs for report date D and the
\* games list the loader returned.
GenerateReport(D, games) ==
    /\ pc = "idle"
    /\ \E r \in {generate_report_data_and_pdfs(games, D, master_pitcher_df, master_batting_df,
                                               pitcher_columns, batting_columns)} :
           /\ outcome' = r.outcome
           /\ error' = r.error
           /\ report_df' = r.report_df
           /\ recommendations' = r.recommendations
           /\ parlays' = r.parlays
    /\ report_date' = D
    /\ game_pitcher_info' = games
    /\ pc' = "returned"
    /\ UNCHANGED << master_pitcher_df, master_batting_df, pitcher_columns, batting_columns,
                    call, result >>

\* The caller is done with the result; the engine keeps nothing of it.
NextRequest ==
    /\ pc = "returned"
    /\ pc' = "idle"
    /\ report_date' = 0
    /\ game_pitcher_info' = << >>
    /\ outcome' = "none"
    /\ error' = None
    /\ report_df' = << >>
    /\ recommendations' = << >>
    /\ parlays' = << >>
    /\ UNCHANGED << master_pitcher_df, master_batting_df, pitcher_columns, batting_columns,
                    call, result >>

Next ==
    \/ \E d \in Dates, home \in BOOLEAN, profile \in Profiles :
          consolidate_daily_data(d, home, profile)
    \/ \E D \in Dates : \E games \in GameLists(D) : GenerateReport(D, games)
    \/ NextRequest

Spec == Init /\ [][Next]_vars

\* ------------------------------------------------------------------ parlay ranking alone
\* The games of a slate, by table position.
SlateGames ==
    << "DET @ NYY", "BOS @ TBR", "LAD @ SFG", "CHC @ STL", "SEA @ HOU", "ATL @ PHI", "SD @ ARI" >>

SlatePitchers ==
    << "Gerrit Cole", "Shane Baz", "Logan Webb", "Sonny Gray", "Hunter Brown", "Zack Wheeler",
       "Zac Gallen" >>

\* The label combinations of a classified row: the strikeout composite, the
\* NRFI/YRFI composite and the Over/Under composite of its metrics.
LabelKinds ==
    { << "High", "High (NRFI)", "High (Under)" >>,
      << "Low", "High (YRFI)", "High (Over)" >>,
      << "Moderate", "Moderate (leaning YRFI)", "Moderate (leaning Under)" >>,
      << "HIGH OVER", "Moderate (leaning NRFI)", "Neutral" >>,
      << "High", "High (YRFI)", "High (Under)" >>,
      << "Low", "Low", "High (Over)" >> }

\* The columns generate_ranked_parlays reads of the row at a table position.
LabelRow(position, kind) ==
    [col \in {"Game", "Pitcher", "Overall K CONFIDENCE",
              "Overall CONFIDENCE FOR NRFI AND YRFI"}
             \cup {OverallCol(OverUnderNames[i]) : i \in 1..Len(OverUnderNames)} |->
        Str(CASE col = "Game" -> SlateGames[position]
              [] col = "Pitcher" -> SlatePitchers[position]
              [] col = "Overall K CONFIDENCE" -> kind[1]
              [] col = "Overall CONFIDENCE FOR NRFI AND YRFI" -> kind[2]
              [] OTHER -> kind[3])]

\* The classified tables of at most MaxRows rows.
LabelTables ==
    UNION { { [i \in 1..n |-> LabelRow(i, kinds[i])] : kinds \in [1..n -> LabelKinds] }
            : n \in 0..MaxRows }

InitParlays ==
    /\ master_pitcher_df = {}
    /\ master_batting_df = {}
    /\ pitcher_columns = get_inning_pitcher_columns
    /\ batting_columns = get_inning_batting_columns
    /\ report_date = 0
    /\ game_pitcher_info = << >>
    /\ pc = "idle"
    /\ outcome = "none"
    /\ error = None
    /\ report_df \in LabelTables
    /\ recommendations = << >>
    /\ parlays = << >>
    /\ NoCall

\* generate_ranked_parlays(report_df) on a classified table.
RankParlays ==
    /\ pc = "idle"
    /\ parlays' = generate_ranked_parlays(report_df)
    /\ outcome' = "ok"
    /\ pc' = "returned"
    /\ UNCHANGED << master_pitcher_df, master_batting_df, pitcher_columns, batting_columns,
                    report_date, game_pitcher_info, error, report_df, recommendations,
                    call, result >>

NextParlays == RankParlays

SpecParlays == InitParlays /\ [][NextParlays]_vars

\* ------------------------------------------------------------------ tables that lack a column
\* The column sets of a table that lacks at most one of its metric columns.
ColumnSets(all_columns) == {all_columns} \cup {all_columns \ {c} : c \in all_columns}

\* One consolidated day of history (date 1); at most one metric column is
\* absent from the two master tables together.
InitColumns ==
    /\ \E home \in BOOLEAN, profile \in Profiles :
          /\ master_pitcher_df = {PitcherFact(1, home, profile)}
          /\ master_batting_df = {BattingFact(1, ~home, profile)}
    /\ pitcher_columns \in ColumnSets(get_inning_pitcher_columns)
    /\ batting_columns \in ColumnSets(get_inning_batting_columns)
    /\ (pitcher_columns = get_inning_pitcher_columns
        \/ batting_columns = get_inning_batting_columns)
    /\ report_date = 0
    /\ game_pitcher_info = << >>
    /\ pc = "idle"
    /\ NoResult
    /\ NoCall

NextColumns ==
    \/ \E D \in Dates : \E games \in GameLists(D) : GenerateReport(D, games)
    \/ NextRequest

SpecColumns == InitColumns /\ [][NextColumns]_vars

\* ------------------------------------------------------------------ a pitcher with ten starts
\* Cole's ten starts before the report date: six at home (dates 1..6), four
\* away (dates 7..10); he allowed runs in one home start and one away start.
TenStarts(home_rally, away_rally) ==
    {PitcherFact(d, TRUE, IF d = home_rally THEN "rally" ELSE "quiet") : d \in 1..6} \cup
    {PitcherFact(d, FALSE, IF d = away_rally THEN "rally" ELSE "quiet") : d \in 7..10}

\* The batting rows DET can have of the last two of those dates: none, or a
\* home or away game that was quiet or a rally.
BattingRowsOn(d) ==
    {{}} \cup {{BattingFact(d, home, profile)} : home \in BOOLEAN, profile \in Profiles}

\* The report dates after the ten starts.
DatesAfterTenStarts == {11}

InitTenStarts ==
    /\ \E home_rally \in {1, 6}, away_rally \in {7, 10} :
          master_pitcher_df = TenStarts(home_rally, away_rally)
    /\ \E first \in BattingRowsOn(9), second \in BattingRowsOn(10) :
          master_batting_df = first \cup second
    /\ pitcher_columns = get_inning_pitcher_columns
    /\ batting_columns = get_inning_batting_columns
    /\ report_date = 0
    /\ game_pitcher_info = << >>
    /\ pc = "idle"
    /\ NoResult
    /\ NoCall

NextTenStarts ==
    \/ \E D \in DatesAfterTenStarts : \E games \in GameLists(D) : GenerateReport(D, games)
    \/ NextRequest

SpecTenStarts == InitTenStarts /\ [][NextTenStarts]_vars

\* ------------------------------------------------------------------ a team with a doubleheader
\* The history dates: every date before MaxDate.
HistoryDates == 1..(MaxDate - 1)

\* Cole started the first game of every history date.
ColeStarts(profiles) == {PitcherFact(d, TRUE, profiles[d]) : d \in HistoryDates}

\* The batting row of DET in game g of date d (game id 10 d + g); the first
\* game of a date is the away game.
DoubleheaderFact(d, g, profile) ==
    [BattingFact(d, g > 1, profile) EXCEPT !.game_id = 10 * d + g]

\* DET played the first game of date 1 and up to MaxGamesPerDay games on the
\* last history date.
DetGames(first, last_day) ==
    {DoubleheaderFact(1, 1, first)} \cup
    {DoubleheaderFact(MaxDate - 1, g, last_day[g]) : g \in 1..Len(last_day)}

InitDoubleheader ==
    /\ \E profiles \in [HistoryDates -> Profiles] : master_pitcher_df = ColeStarts(profiles)
    /\ \E first \in Profiles, n \in 0..MaxGamesPerDay :
          \E last_day \in [1..n -> Profiles] : master_batting_df = DetGames(first, last_day)
    /\ pitcher_columns = get_inning_pitcher_columns
    /\ batting_columns = get_inning_batting_columns
    /\ report_date = 0
    /\ game_pitcher_info = << >>
    /\ pc = "idle"
    /\ NoResult
    /\ NoCall

NextDoubleheader ==
    \/ \E D \in Dates \ {1} : \E games \in GameLists(D) : GenerateReport(D, games)
    \/ NextRequest

SpecDoubleheader == InitDoubleheader /\ [][NextDoubleheader]_vars

\* ------------------------------------------------------------------ Top-4 lists alone
\* The histories behind the rows of a slate: the master tables hold Cole's
\* (NYY) games against DET before date MaxDate.
SlateHistories ==
    << << {PitcherFact(1, TRUE, "quiet")}, {BattingFact(1, FALSE, "quiet")} >>,
       << {PitcherFact(1, TRUE, "rally")}, {BattingFact(1, FALSE, "rally")} >>,
       << {PitcherFact(1, TRUE, "quiet"), PitcherFact(2, FALSE, "rally")},
          {BattingFact(1, FALSE, "quiet"), BattingFact(2, TRUE, "rally")} >>,
       << {PitcherFact(1, TRUE, "quiet")}, {BattingFact(1, FALSE, "rally")} >> >>

\* The classified report row of Cole, at home against DET on date MaxDate,
\* for each of the histories.
ClassifiedKinds ==
    [k \in 1..Len(SlateHistories) |->
        ClassifyRow(report_entry(
            Game(GameIdOn(MaxDate), "NYY", "DET", "Cole, Gerrit", None),
            pitchers_to_analyze(Game(GameIdOn(MaxDate), "NYY", "DET", "Cole, Gerrit", None))[1],
            MaxDate, SlateHistories[k][1], SlateHistories[k][2],
            get_inning_pitcher_columns, get_inning_batting_columns))]

\* The row of a slate at a table position: the aggregates and labels of a
\* kind, for the game and pitcher of the position.
SlateRow(position, kind) ==
    ("Game" :> Str(SlateGames[position])) @@
    ("Pitcher" :> Str(SlatePitchers[position])) @@
    ("Game ID" :> Whole(GameIdOn(MaxDate) + position)) @@
    ClassifiedKinds[kind]

\* The classified tables of at most MaxSlate rows.
SlateTables ==
    UNION { { [i \in 1..n |-> SlateRow(i, kinds[i])] : kinds \in [1..n -> 1..Len(SlateHistories)] }
            : n \in 0..MaxSlate }

InitTop4 ==
    /\ master_pitcher_df = {}
    /\ master_batting_df = {}
    /\ pitcher_columns = get_inning_pitcher_columns
    /\ batting_columns = get_inning_batting_columns
    /\ report_date = 0
    /\ game_pitcher_info = << >>
    /\ pc = "idle"
    /\ outcome = "none"
    /\ error = None
    /\ report_df \in SlateTables
    /\ recommendations = << >>
    /\ parlays = << >>
    /\ NoCall

\* The Top-4 lists of a classified table.
Recommend ==
    /\ pc = "idle"
    /\ recommendations' = recommendations_of(report_df)
    /\ outcome' = "ok"
    /\ pc' = "returned"
    /\ UNCHANGED << master_pitcher_df, master_batting_df, pitcher_columns, batting_columns,
                    report_date, game_pitcher_info, error, report_df, parlays,
                    call, result >>

NextTop4 == Recommend

SpecTop4 == InitTop4 /\ [][NextTop4]_vars

\* ------------------------------------------------------------------ classification functions alone
\* The values a single-value classification is called with are n, n/10 and
\* n/100 for n up to MaxValue; the percentages of a composite are k/n * 100
\* for histories of up to MaxGames games.
Values == {Num(n, d) : n \in 0..MaxValue, d \in {1, 10, 100}}

Percentages == UNION {{Pct(k, n) : k \in 0..n} : n \in 1..MaxGames}

\* The threshold pairs of the Walks .. Total Bases confidences, and the pair
\* of the strikeout confidence (25 / 15).
ThresholdPairs ==
    {OverUnderMetrics[i].pitcher_thresholds : i \in 1..Len(OverUnderMetrics)} \cup
    {OverUnderMetrics[i].opponent_thresholds : i \in 1..Len(OverUnderMetrics)} \cup
    {Thresholds(<<25, 1>>, <<15, 1>>)}

ComparisonTypes == {"greater", "less"}

OrdinalLabels == {"Low", "Moderate", "High"}

\* The labels a run-prevention signal is passed as: the three ordinal labels
\* and "Neutral", which confidence_map does not hold.
PreventionLabels == OrdinalLabels \cup {"Neutral"}

Call(fn, args) == [fn |-> fn, args |-> args]

ConfidenceLevelCalls ==
    {Call("calculate_confidence_level", << v, t, c >>) :
        v \in Values, t \in ThresholdPairs, c \in ComparisonTypes}

\* Labels none of the weight maps holds.
UnmappedLabels == {"Neutral", "N/A"}

OverUnderCalls ==
    {Call("calculate_overall_over_under_confidence", << p, o >>) :
        p \in OrdinalLabels \cup UnmappedLabels, o \in OrdinalLabels \cup UnmappedLabels}

NrfiYrfiCalls ==
    {Call("calculate_overall_nrfi_yrfi_confidence", << p, o, c >>) :
        p \in Percentages, o \in Percentages, c \in PreventionLabels}

\* The shares k/n * 100 and the per-game averages k/n of up to MaxStarts games.
StartShares == UNION {{Pct(k, n) : k \in 0..n} : n \in 1..MaxStarts}

RunsPerGame == UNION {{Avg(k, n) : k \in 0..n} : n \in 1..MaxStarts}

\* The columns computed by the inline percentage lambda.
PercentageConfColumns ==
    {"PITCH NRFI CONF", "PITCH NRHI CONF", "PITCHER VENUE NRHI CONF", "BAT NRHI CONF",
     "BATTER VENUE NRHI CONF"}

PercentageConfCalls == {Call(col, << x >>) : col \in PercentageConfColumns, x \in StartShares}

OppRunsConfCalls == {Call("OPP R/G CONF", << x >>) : x \in RunsPerGame}

\* The strikeout rates k/n * 100 of up to MaxKGames games, and a row that holds
\* the four rates calculate_k_bet_and_confidence reads.
KRates == UNION {{Pct(k, n) : k \in 0..n} : n \in 1..MaxKGames}

KRow(pitch_venue, pitch_overall, opp_venue, opp_overall) ==
    ("VENUE PITCH K RATE %" :> pitch_venue) @@ ("PITCH K OVERALL RATE %" :> pitch_overall) @@
    ("VENUE OPP K RATE %" :> opp_venue) @@ ("OPP K OVERALL RATE %" :> opp_overall)

KCalls ==
    {Call("calculate_k_bet_and_confidence", << pv, po, ov, oo >>) :
        pv \in KRates, po \in KRates, ov \in KRates, oo \in KRates}

\* The strikeout labels of a row, by column.
KLabels(row) ==
    LET layer == StrikeoutLayer(row)
    IN  [col \in {"PITCH K CONF", "OPP K CONF", "PITCHER K BET", "OPPONENT K BET",
                  "Overall K CONFIDENCE"} |-> layer[col].s]

InitClassify ==
    /\ master_pitcher_df = {}
    /\ master_batting_df = {}
    /\ pitcher_columns = get_inning_pitcher_columns
    /\ batting_columns = get_inning_batting_columns
    /\ report_date = 0
    /\ game_pitcher_info = << >>
    /\ pc = "idle"
    /\ NoResult
    /\ \/ call \in ConfidenceLevelCalls \cup OverUnderCalls \cup NrfiYrfiCalls
       \/ call \in PercentageConfCalls \cup OppRunsConfCalls
       \/ call \in KCalls
    /\ result = None

\* The called function returns its label.
Returns(fn, label) ==
    /\ pc = "idle"
    /\ call.fn = fn
    /\ result' = label
    /\ pc' = "returned"
    /\ UNCHANGED << master_pitcher_df, master_batting_df, pitcher_columns, batting_columns,
                    report_date, game_pitcher_info, outcome, error, report_df,
                    recommendations, parlays, call >>

ConfidenceLevelReturns ==
    Returns("calculate_confidence_level",
            calculate_confidence_level(call.args[1], call.args[2], call.args[3]))

OverUnderReturns ==
    Returns("calculate_overall_over_under_confidence",
            calculate_overall_over_under_confidence(call.args[1], call.args[2]))

NrfiYrfiReturns ==
    Returns("calculate_overall_nrfi_yrfi_confidence",
            calculate_overall_nrfi_yrfi_confidence(call.args[1], call.args[2], call.args[3]))

PercentageConfReturns ==
    \E col \in PercentageConfColumns : Returns(col, NoRunPctConf(call.args[1]))

OppRunsConfReturns == Returns("OPP R/G CONF", OppRunsPerGameConf(call.args[1]))

KReturns ==
    Returns("calculate_k_bet_and_confidence",
            KLabels(KRow(call.args[1], call.args[2], call.args[3], call.args[4])))

NextClassify ==
    \/ ConfidenceLevelReturns
    \/ OverUnderReturns
    \/ NrfiYrfiReturns
    \/ PercentageConfReturns
    \/ OppRunsConfReturns
    \/ KReturns

SpecClassify == InitClassify /\ [][NextClassify]_vars

\* ------------------------------------------------------------------ properties
\* A request has returned a report table with rows.
ReportReturned == pc = "returned" /\ outcome = "ok"

\* The fact rows dated D or later, each changed: every count of the inning is
\* an extreme 9 and the home/away flag is turned round.
TamperPitcherRows(df, D) ==
    {IF r.date >= D
     THEN [r EXCEPT !.vals = [c \in DOMAIN r.vals |-> 9],
                    !.is_home_pitcher = ~r.is_home_pitcher]
     ELSE r : r \in df}

TamperBattingRows(df, D) ==
    {IF r.date >= D
     THEN [r EXCEPT !.vals = [c \in DOMAIN r.vals |-> 9],
                    !.is_home_team = ~r.is_home_team]
     ELSE r : r \in df}

\* The columns of a report row that hold values of the game of the report
\* date itself ('TODAY' columns and what is listed from them).
SameDayColumns == TodayKeys

\* C1: every historical value of a report row (games count, averages, rates,
\* percentages, venue-split values, last-game values, and the confidences and
\* bets computed from them) comes from fact rows dated before the report date:
\* changing every fact row dated on or after the report date to extreme values
\* leaves all of them unchanged.
C1_NoTemporalLeakage ==
    ReportReturned =>
        \A tampered \in {generate_report_data_and_pdfs(
                            game_pitcher_info, report_date,
                            TamperPitcherRows(master_pitcher_df, report_date),
                            TamperBattingRows(master_batting_df, report_date),
                            pitcher_columns, batting_columns)} :
            /\ tampered.outcome = "ok"
            /\ Len(tampered.report_df) = Len(report_df)
            /\ \A i \in 1..Len(report_df) :
                  \A key \in DOMAIN report_df[i] \ SameDayColumns :
                      tampered.report_df[i][key] = report_df[i][key]
            /\ tampered.parlays = parlays

\* C1 witness: a report for a pitcher who has an outing before the report date
\* and a row dated on or after it; the report counts the earlier outing.
C1_Witness ==
    /\ ReportReturned
    /\ \E r \in master_pitcher_df : r.date >= report_date
    /\ \E r \in master_batting_df : r.date = report_date
    /\ \E i \in 1..Len(report_df) :
          /\ report_df[i]["Pitcher"].s = "Gerrit Cole"
          /\ report_df[i]["# TOTAL STARTS INNING 1"].n = 1

\* The history of the pitcher and of the opposing team of a report row: their
\* fact rows dated before the report date.
PitcherHistoryOfRow(row) ==
    {r \in master_pitcher_df :
        r.date < report_date /\ DisplayName(r.pitcher_name) = row["Pitcher"].s}

OpponentHistoryOfRow(row) ==
    {r \in master_batting_df : r.date < report_date /\ r.team_id = row["Opponent"].s}

\* The columns of the report table that hold an average, a rate or a
\* percentage of the pitcher, overall or venue-split.
PitcherValueColumns ==
    ((CatalogKeys(PITCHER_METRICS_INNING, "report_key_avg")
      \cup CatalogKeys(PITCHER_METRICS_INNING, "report_key_rate")
      \cup CatalogKeys(PITCHER_METRICS_INNING, "report_key_per_game_pct"))
     \ {"PITCH K RATE %"})
    \cup {"PITCH K OVERALL RATE %", "PITCH NRFI % INNING 1", "PITCH NRHI % INNING 1",
          "PITCHER VENUE NRFI % INNING 1", "PITCHER VENUE NRHI % INNING 1",
          "VENUE PITCH K RATE %"}

\* The same for the opposing team.
OpponentValueColumns ==
    ((CatalogKeys(BATTING_METRICS_INNING, "report_key_avg")
      \cup CatalogKeys(BATTING_METRICS_INNING, "report_key_rate")
      \cup CatalogKeys(BATTING_METRICS_INNING, "report_key_per_game_pct"))
     \ {"OPP K RATE %"})
    \cup {"OPP K OVERALL RATE %", "BAT NRFI % INNING 1", "BAT NRHI % INNING 1",
          "OPPONENT VENUE NRFI % INNING 1", "BATTER VENUE NRHI % INNING 1",
          "VENUE OPP K RATE %"}

\* C2: for a pitcher (an opposing team) with no game before the report date,
\* every average, rate and percentage column of that entity in the report row,
\* overall and venue-split, is 0.0, every last-game column of that entity is
\* "N/A", and no value of the row is a quotient over zero.
C2_ZeroHistoryDefaults ==
    ReportReturned =>
        \A i \in 1..Len(report_df) :
            /\ PitcherHistoryOfRow(report_df[i]) = {} =>
                  /\ \A key \in PitcherValueColumns : report_df[i][key] = Zero
                  /\ \A key \in CatalogKeys(PITCHER_METRICS_INNING, "last_game_key") :
                        report_df[i][key] = Str("N/A")
            /\ OpponentHistoryOfRow(report_df[i]) = {} =>
                  /\ \A key \in OpponentValueColumns : report_df[i][key] = Zero
                  /\ \A key \in CatalogKeys(BATTING_METRICS_INNING, "last_game_key") :
                        report_df[i][key] = Str("N/A")
            /\ \A key \in DOMAIN report_df[i] : report_df[i][key].d > 0

\* C2 witness: a report with a pitcher without history against a team that
\* has history (its own columns hold non-zero values), and a report row whose
\* opposing team has no history.
C2_Witness ==
    /\ ReportReturned
    /\ \E i \in 1..Len(report_df) :
          /\ PitcherHistoryOfRow(report_df[i]) = {}
          /\ OpponentHistoryOfRow(report_df[i]) # {}
          /\ report_df[i]["OPP R/G"] # Zero
          /\ report_df[i]["PITCH RUNS ALLOWED/GM"] = Zero
          /\ report_df[i]["LAST GAME PITCHER RUNS ALLOWED INNING 1"] = Str("N/A")
          /\ report_df[i]["LAST GAME OPPONENT RUNS SCORED INNING 1"] # Str("N/A")

\* The role of the pitcher of a report row in the game of the request: TRUE
\* when the pitcher's team is the home team.
PitcherIsHome(row) ==
    \E g \in 1..Len(game_pitcher_info) :
        /\ game_pitcher_info[g].game_id = row["Game ID"].n
        /\ game_pitcher_info[g].home_team = row["Pitcher Team"].s

\* The percentage of the games of a set of fact rows in which the column is
\* zero (at least one), and the per-game average of the column.
ShareOfGames(rows, col, zero) ==
    IF rows = {} THEN Zero
    ELSE Num(100 * Cardinality({r.game_id : r \in {x \in rows : (x.vals[col] = 0) = zero}}),
             Cardinality({r.game_id : r \in rows}))

PerGame(rows, col) ==
    IF rows = {} THEN Zero
    ELSE Num(SumCol(rows, col), Cardinality({r.game_id : r \in rows}))

\* C3: every venue-split value of a report row is computed from the history
\* rows whose home/away flag equals the entity's role in the current game: the
\* pitcher's role is the game's home/away side of the pitcher, the opposing
\* team's role is the inverse; with no history row in that role the value is 0.0.
C3_VenueSplitByRole ==
    ReportReturned =>
        \A i \in 1..Len(report_df) :
            \A role \in {PitcherIsHome(report_df[i])} :
            \A pv \in {{r \in PitcherHistoryOfRow(report_df[i]) : r.is_home_pitcher = role}} :
            \A ov \in {{r \in OpponentHistoryOfRow(report_df[i]) : r.is_home_team = ~role}} :
                /\ report_df[i]["PITCHER VENUE NRFI % INNING 1"]
                      = ShareOfGames(pv, "inning_1_runs_allowed", TRUE)
                /\ report_df[i]["PITCHER VENUE NRHI % INNING 1"]
                      = ShareOfGames(pv, "inning_1_hits_allowed", TRUE)
                /\ report_df[i]["VENUE PITCH K RATE %"]
                      = ShareOfGames(pv, "inning_1_strikeouts", FALSE)
                /\ report_df[i]["OPPONENT VENUE NRFI % INNING 1"]
                      = ShareOfGames(ov, "inning_1_runs_scored", TRUE)
                /\ report_df[i]["BATTER VENUE NRHI % INNING 1"]
                      = ShareOfGames(ov, "inning_1_hits_batting", TRUE)
                /\ report_df[i]["VENUE OPP K RATE %"]
                      = ShareOfGames(ov, "inning_1_strikeouts_batting", FALSE)
                /\ report_df[i]["PITCHER VENUE NRHI %"]
                      = ShareOfGames(pv, "inning_1_hits_allowed", TRUE)
                /\ report_df[i]["BATTER VENUE NRHI %"]
                      = ShareOfGames(ov, "inning_1_hits_batting", TRUE)
                /\ \A k \in 1..Len(PITCHER_METRICS_INNING) :
                      \A m \in {PITCHER_METRICS_INNING[k]} :
                          (IsVenueKey(m.report_key_avg) /\ ~IsNrhiKey(m.report_key_avg)) =>
                              report_df[i][m.report_key_avg] = PerGame(pv, m.col_name)
                /\ \A k \in 1..Len(BATTING_METRICS_INNING) :
                      \A m \in {BATTING_METRICS_INNING[k]} :
                          (IsVenueKey(m.report_key_avg) /\ ~IsNrhiKey(m.report_key_avg)) =>
                              report_df[i][m.report_key_avg] = PerGame(ov, m.col_name)

\* C3 witness: the pitcher of a row is away in the current game and every
\* outing of his history was at home (the opposing team's history is all away,
\* its current role home): the overall values are not zero, the venue-split
\* values of both are 0.0.
C3_Witness ==
    /\ ReportReturned
    /\ \E i \in 1..Len(report_df) :
          /\ ~PitcherIsHome(report_df[i])
          /\ PitcherHistoryOfRow(report_df[i]) # {}
          /\ \A r \in PitcherHistoryOfRow(report_df[i]) : r.is_home_pitcher
          /\ OpponentHistoryOfRow(report_df[i]) # {}
          /\ \A r \in OpponentHistoryOfRow(report_df[i]) : ~r.is_home_team
          /\ report_df[i]["PITCH K OVERALL RATE %"] # Zero
          /\ report_df[i]["VENUE PITCH K RATE %"] = Zero
          /\ report_df[i]["OPP K OVERALL RATE %"] # Zero
          /\ report_df[i]["VENUE OPP K RATE %"] = Zero

\* The table positions of the rows that qualify for a parlay category.
QualifyingRows(name) ==
    {i \in 1..Len(report_df) :
        report_df[i][CategoryOf(name).col].s \in CategoryOf(name).labels}

\* The rows a parlay pairs, as a set of table positions.
PairOf(p) == {p.combo[1], p.combo[2]}

\* C4: with n rows qualifying for a category, the category's list has exactly
\* n(n-1)/2 candidates (none for n < 2, one for n = 2): one for every unordered
\* pair of distinct qualifying rows, no row paired with itself, no pair twice.
C4_ParlayCount ==
    (pc = "returned" /\ outcome = "ok") =>
        \A name \in CategoryNames :
            \A n \in {Cardinality(QualifyingRows(name))} :
                /\ DOMAIN parlays = CategoryNames
                /\ Len(parlays[name]) = (n * (n - 1)) \div 2
                /\ n < 2 => parlays[name] = << >>
                /\ n = 2 => Len(parlays[name]) = 1
                /\ \A k \in 1..Len(parlays[name]) :
                      /\ parlays[name][k].combo[1] # parlays[name][k].combo[2]
                      /\ PairOf(parlays[name][k]) \subseteq QualifyingRows(name)
                /\ \A k, l \in 1..Len(parlays[name]) :
                      k # l => PairOf(parlays[name][k]) # PairOf(parlays[name][l])
                /\ \A i, j \in QualifyingRows(name) :
                      i # j => \E k \in 1..Len(parlays[name]) : PairOf(parlays[name][k]) = {i, j}

\* C4 witness: a ranked slate with a category of three qualifying rows (three
\* candidates), one of two (one candidate) and one of a single row (none).
C4_Witness ==
    /\ pc = "returned" /\ outcome = "ok"
    /\ \E name \in CategoryNames :
          Cardinality(QualifyingRows(name)) = 3 /\ Len(parlays[name]) = 3
    /\ \E name \in CategoryNames :
          Cardinality(QualifyingRows(name)) = 2 /\ Len(parlays[name]) = 1
    /\ \E name \in CategoryNames :
          Cardinality(QualifyingRows(name)) = 1 /\ parlays[name] = << >>

\* C5: every parlay list is sorted by score, highest first: for positions
\* i < j of a category's list, score[i] >= score[j].
C5_ParlaysSortedByScore ==
    (pc = "returned" /\ outcome = "ok") =>
        \A name \in CategoryNames :
            \A i, j \in 1..Len(parlays[name]) :
                i < j => ~NumLt(parlays[name][i].score, parlays[name][j].score)

\* C5 witness: the YRFI list of a slate whose first qualifying row is
\* Moderate (leaning YRFI) and whose next two are High (YRFI): the pair of the
\* two High rows, generated last, is ranked first.
C5_Witness ==
    /\ pc = "returned" /\ outcome = "ok"
    /\ Len(report_df) = 3
    /\ report_df[1]["Overall CONFIDENCE FOR NRFI AND YRFI"].s = "Moderate (leaning YRFI)"
    /\ report_df[2]["Overall CONFIDENCE FOR NRFI AND YRFI"].s = "High (YRFI)"
    /\ report_df[3]["Overall CONFIDENCE FOR NRFI AND YRFI"].s = "High (YRFI)"
    /\ Len(parlays["YRFI Parlays"]) = 3
    /\ parlays["YRFI Parlays"][1].combo = << 2, 3 >>
    /\ parlays["YRFI Parlays"][1].score = Whole(3)
    /\ NumLt(parlays["YRFI Parlays"][2].score, parlays["YRFI Parlays"][1].score)

\* The composite column and the two bet columns of every Over/Under metric.
OverUnderBetColumns ==
    { [name |-> "Hits", overall |-> "Overall HITS CONFIDENCE",
       pitcher_bet |-> "PITCHER HITS BET", opponent_bet |-> "OPPONENT HITS BET"] }
    \cup { [name |-> OverUnderMetrics[k].name,
            overall |-> OverUnderMetrics[k].overall_conf_col,
            pitcher_bet |-> OverUnderMetrics[k].bet_col,
            opponent_bet |-> OverUnderMetrics[k].opponent_bet_col]
           : k \in 1..Len(OverUnderMetrics) }

UnderBet(x) == Str("Under " \o x.name \o " Bet")
OverBet(x) == Str("Over " \o x.name \o " Bet")

\* C6 as stated: the two sides are mirror images; High (Under) gives the
\* pitcher "Under X Bet" and the opponent "Over X Bet", High (Over) gives the
\* pitcher "Over X Bet" and the opponent "Under X Bet".
C6_MirrorImageBets ==
    ReportReturned =>
        \A i \in 1..Len(report_df) : \A x \in OverUnderBetColumns :
            /\ report_df[i][x.overall].s = "High (Under)" =>
                  /\ report_df[i][x.pitcher_bet] = UnderBet(x)
                  /\ report_df[i][x.opponent_bet] = OverBet(x)
            /\ report_df[i][x.overall].s = "High (Over)" =>
                  /\ report_df[i][x.pitcher_bet] = OverBet(x)
                  /\ report_df[i][x.opponent_bet] = UnderBet(x)

\* C6 (amended): for every Over/Under metric X and every report row the two
\* sides carry the same recommendation: "Under X Bet" on both for a composite
\* High (Under), "Over X Bet" on both for High (Over), "Neutral" on both otherwise.
C6_SameBetOnBothSides ==
    ReportReturned =>
        \A i \in 1..Len(report_df) : \A x \in OverUnderBetColumns :
            /\ report_df[i][x.opponent_bet] = report_df[i][x.pitcher_bet]
            /\ report_df[i][x.pitcher_bet] =
                  (IF report_df[i][x.overall].s = "High (Under)" THEN UnderBet(x)
                   ELSE IF report_df[i][x.overall].s = "High (Over)" THEN OverBet(x)
                   ELSE Str("Neutral"))

\* C6 witness: a report row with a High (Under) composite (Walks) and a
\* High (Over) composite (Hits), and the bets of both sides on them.
C6_Witness ==
    /\ ReportReturned
    /\ \E i \in 1..Len(report_df) :
          /\ report_df[i]["Overall WALKS CONFIDENCE"].s = "High (Under)"
          /\ report_df[i]["PITCHER WALKS BET"].s = "Under Walks Bet"
          /\ report_df[i]["OPPONENT WALKS BET"].s = "Under Walks Bet"
          /\ report_df[i]["Overall HITS CONFIDENCE"].s = "High (Over)"
          /\ report_df[i]["PITCHER HITS BET"].s = "Over Hits Bet"
          /\ report_df[i]["OPPONENT HITS BET"].s = "Over Hits Bet"

\* The ordinal confidence columns (High / Moderate / Low) of the report table.
OrdinalConfidenceColumns ==
    {"PITCH K CONF", "OPP K CONF", "Overall K CONFIDENCE",
     "PITCH NRFI CONF", "OPP R/G CONF", "PITCH RUNS ALLOWED CONF",
     "Overall Run Prevention Confidence",
     "PITCH NRHI CONF", "PITCHER VENUE NRHI CONF", "BAT NRHI CONF", "BATTER VENUE NRHI CONF",
     "PITCH HITS ALLOWED CONF", "OPP HITS BATTING CONF"}
    \cup {OverUnderMetrics[k].pitcher_conf_col : k \in 1..Len(OverUnderMetrics)}
    \cup {OverUnderMetrics[k].opponent_conf_col : k \in 1..Len(OverUnderMetrics)}

\* C7: the label-to-weight maps are total over the labels of the report: the
\* composite label of every Over/Under metric (calculate_overall_nrhi_confidence
\* for Hits, calculate_overall_over_under_confidence for the others, "Neutral"
\* included) has an entry in over_under_map, the NRFI/YRFI composite has an
\* entry in nrfi_yrfi_map, and the value of every ordinal confidence column has
\* an entry in confidence_map.
C7_LabelMapsTotal ==
    ReportReturned =>
        \A i \in 1..Len(report_df) :
            /\ \A x \in OverUnderBetColumns :
                  report_df[i][x.overall].s \in DOMAIN over_under_map
            /\ report_df[i]["Overall CONFIDENCE FOR NRFI AND YRFI"].s \in DOMAIN nrfi_yrfi_map
            /\ \A col \in OrdinalConfidenceColumns :
                  report_df[i][col].s \in DOMAIN confidence_map

\* The composite confidence columns and the bet columns of the report table.
CompositeColumns ==
    {"Overall CONFIDENCE FOR NRFI AND YRFI"} \cup {x.overall : x \in OverUnderBetColumns}

BetColumns ==
    {"PITCHER K BET", "OPPONENT K BET", "PITCHER RUNS BET", "OPPONENT RUNS BET"}
    \cup {x.pitcher_bet : x \in OverUnderBetColumns}
    \cup {x.opponent_bet : x \in OverUnderBetColumns}

DirectionalHighLabels == {"High (Under)", "High (Over)", "High (NRFI)", "High (YRFI)"}

\* The report row at a table position is a leg of some parlay.
InSomeParlay(i) ==
    \E name \in DOMAIN parlays : \E k \in 1..Len(parlays[name]) : i \in PairOf(parlays[name][k])

\* C8: a report row whose pitcher and opposing team both have no game before
\* the report date holds no directional High label in a composite confidence
\* column, "Neutral" in every bet column, and is a leg of no parlay.
C8_NoHistoryIsNeutral ==
    ReportReturned =>
        \A i \in 1..Len(report_df) :
            (PitcherHistoryOfRow(report_df[i]) = {} /\ OpponentHistoryOfRow(report_df[i]) = {}) =>
                /\ \A col \in CompositeColumns : report_df[i][col].s \notin DirectionalHighLabels
                /\ \A col \in BetColumns : report_df[i][col].s = "Neutral"
                /\ ~InSomeParlay(i)

\* A games list names at least one pitcher.
NamesAPitcher(games) ==
    \E g \in 1..Len(games) : games[g].home_pitcher # None \/ games[g].away_pitcher # None

ColumnOfKey(key) ==
    IF key = "PITCH K RATE %" THEN "PITCH K OVERALL RATE %"
    ELSE IF key = "OPP K RATE %" THEN "OPP K OVERALL RATE %"
    ELSE key

\* The aggregate columns of the report table (what analyze_games computes
\* from the fact tables).
AggregateColumns ==
    {ColumnOfKey(key) : key \in all_potential_report_keys \ ConfidenceAndBetKeys}
    \cup {"BAT NRFI % INNING 1"}

\* The report columns derived from a metric column of a catalog: every key of
\* the catalog entries that read it as their column, and the rate key of the
\* entries that read it as their total column.
ColumnsOfSource(catalog, col) ==
    UNION { {ColumnOfKey(catalog[k][slot]) :
                slot \in {"report_key_avg", "report_key_rate", "report_key_per_game_pct",
                          "today_report_key", "last_game_key"}} \ {None}
            : k \in {j \in 1..Len(catalog) : catalog[j].col_name = col} }
    \cup ({ColumnOfKey(catalog[k].report_key_rate)
              : k \in {j \in 1..Len(catalog) : catalog[j].total_col = col}} \ {None})

\* The columns the venue blocks and the NRFI percentages derive from a column.
VenueColumnsOfSource(col) ==
    CASE col = "inning_1_runs_allowed" ->
             {"PITCHER VENUE NRFI % INNING 1", "PITCH NRFI % INNING 1"}
      [] col = "inning_1_runs_scored" ->
             {"OPPONENT VENUE NRFI % INNING 1", "BAT NRFI % INNING 1"}
      [] col = "inning_1_hits_allowed" -> {"PITCHER VENUE NRHI % INNING 1"}
      [] col = "inning_1_hits_batting" -> {"BATTER VENUE NRHI % INNING 1"}
      [] col = "inning_1_strikeouts" -> {"VENUE PITCH K RATE %"}
      [] col = "inning_1_strikeouts_batting" -> {"VENUE OPP K RATE %"}
      [] OTHER -> {}

DerivedColumns(col) ==
    ColumnsOfSource(PITCHER_METRICS_INNING, col)
    \cup ColumnsOfSource(BATTING_METRICS_INNING, col)
    \cup VenueColumnsOfSource(col)

\* The metric columns absent from the master tables.
MissingColumns ==
    (get_inning_pitcher_columns \ pitcher_columns)
    \cup (get_inning_batting_columns \ batting_columns)

\* The default of a report column.
DefaultOfColumn(column) ==
    IF column \in LastGameKeys THEN Str("N/A") ELSE Zero

\* A request with games that name a pitcher, on non-empty tables that lack
\* the given set of columns, produced the rows the full tables give, except
\* that the columns derived from the absent ones hold their defaults.
OnlyDerivedColumnsDefaulted(missing) ==
    \A full \in {analyze_games(game_pitcher_info, report_date, master_pitcher_df,
                               master_batting_df, get_inning_pitcher_columns,
                               get_inning_batting_columns)} :
        /\ outcome = "ok"
        /\ Len(report_df) = Len(full.rows)
        /\ \A i \in 1..Len(report_df) :
              \A column \in AggregateColumns :
                  report_df[i][column] =
                      (IF column \in UNION {DerivedColumns(c) : c \in missing}
                       THEN DefaultOfColumn(column)
                       ELSE PreparedRow(full.rows[i])[column])

\* C10: if a metric's source column is absent from the fact table, the report
\* row is still produced, with only that metric's derived columns at their
\* defaults (0.0 / "N/A") and every other value computed normally; for each
\* source column, runs allowed, hits allowed and strikeouts included.
C10_MissingColumnDefaultsOnlyItsMetric ==
    (pc = "returned" /\ NamesAPitcher(game_pitcher_info) /\ MissingColumns # {}) =>
        OnlyDerivedColumnsDefaulted(MissingColumns)


\* ------------------------------------------------------------------ C11
\* A value meets a threshold a/b: value >= a/b for 'greater', value <= a/b for 'less'.
MeetsThreshold(value, threshold, comparison_type) ==
    IF comparison_type = "greater" THEN Ge(value, threshold[1], threshold[2])
    ELSE Le(value, threshold[1], threshold[2])

\* The thresholds are ordered as their direction needs: high >= moderate for
\* 'greater', high <= moderate for 'less'.
ThresholdsOrdered(thresholds, comparison_type) ==
    IF comparison_type = "greater"
    THEN thresholds.high[1] * thresholds.moderate[2] >= thresholds.moderate[1] * thresholds.high[2]
    ELSE thresholds.high[1] * thresholds.moderate[2] <= thresholds.moderate[1] * thresholds.high[2]

\* Low < Moderate < High
OrdinalRank(label) == CASE label = "Low" -> 1 [] label = "Moderate" -> 2 [] label = "High" -> 3

\* C11: calculate_confidence_level returns High when the value meets the high
\* threshold, else Moderate when it meets the moderate threshold, else Low
\* (>= for 'greater', <= for 'less', boundaries inclusive); with ordered
\* thresholds no value at least as good gets a lower label; and with
\* {high: 25, moderate: 15} and 'greater', 30 is High, 18 Moderate, 5 Low.
C11_ConfidenceLevelRule ==
    (pc = "returned" /\ call.fn = "calculate_confidence_level") =>
        LET value == call.args[1]
            thresholds == call.args[2]
            comparison_type == call.args[3]
        IN  /\ result = (IF MeetsThreshold(value, thresholds.high, comparison_type) THEN "High"
                         ELSE IF MeetsThreshold(value, thresholds.moderate, comparison_type)
                         THEN "Moderate"
                         ELSE "Low")
            /\ ThresholdsOrdered(thresholds, comparison_type) =>
                   \A v \in Values :
                       (IF comparison_type = "greater"
                        THEN ~NumLt(v, value) ELSE ~NumLt(value, v)) =>
                           OrdinalRank(calculate_confidence_level(v, thresholds, comparison_type))
                               >= OrdinalRank(result)
            /\ (thresholds = Thresholds(<<25, 1>>, <<15, 1>>) /\ comparison_type = "greater") =>
                   /\ value = Whole(30) => result = "High"
                   /\ value = Whole(18) => result = "Moderate"
                   /\ value = Whole(5) => result = "Low"

\* The call of the example has returned: a value on the high boundary (25)
\* is classified High.
C11_Witness ==
    /\ pc = "returned"
    /\ call.fn = "calculate_confidence_level"
    /\ call.args[2] = Thresholds(<<25, 1>>, <<15, 1>>)
    /\ call.args[3] = "greater"
    /\ call.args[1] = Whole(25)
    /\ result = "High"

\* ------------------------------------------------------------------ C12
\* C12: every parlay of every category pairs report rows of two different
\* games (different Game ID and different Game string), also when both
\* pitchers of one game qualify for the category.
C12_ParlaysPairDifferentGames ==
    ReportReturned =>
        \A name \in DOMAIN parlays :
            \A k \in 1..Len(parlays[name]) :
                LET first == report_df[parlays[name][k].combo[1]]
                    second == report_df[parlays[name][k].combo[2]]
                IN  /\ first["Game ID"] # second["Game ID"]
                    /\ first["Game"] # second["Game"]

\* ------------------------------------------------------------------ C13
\* What a request for the report date and games list of the current one
\* returns when it is run now, on the master tables as they are.
RunAgain ==
    generate_report_data_and_pdfs(game_pitcher_info, report_date, master_pitcher_df,
                                  master_batting_df, pitcher_columns, batting_columns)

AggregatorTable ==
    analyze_games(game_pitcher_info, report_date, master_pitcher_df, master_batting_df,
                  pitcher_columns, batting_columns).rows

\* C14: the classification / recommendation stage leaves the table the
\* aggregator returned unchanged (same columns, same names, same values).
\* report_df is that table: the stage binds the frame analyze_games returned
\* and works on it without a copy, so after the stage the frame is still
\* what analyze_games returned.
C14_AggregatorTableUnchanged ==
    ReportReturned =>
        \A returned \in {AggregatorTable} :
            /\ Len(report_df) = Len(returned)
            /\ \A i \in 1..Len(report_df) :
                   /\ DOMAIN report_df[i] = DOMAIN returned[i]
                   /\ \A k \in DOMAIN returned[i] : report_df[i][k] = returned[i][k]

\* ------------------------------------------------------------------ C16
\* A Top-4 list: its name, the confidence column and the map that weighs it,
\* the labels a row needs to be eligible ({} when every row is) and the raw
\* rate columns that order rows of equal weight, each with its direction.
Top4List(name, col, map, labels, rates) ==
    [name |-> name, col |-> col, map |-> map, labels |-> labels, rates |-> rates]

Top4Lists ==
    { Top4List("Top 4 Strikeout", "Overall K CONFIDENCE", confidence_map, {},
               << SortBy("PITCH K OVERALL RATE %", << >>, FALSE) >>),
      Top4List("Top 4 Run Prevention", "Overall Run Prevention Confidence", confidence_map, {},
               << SortBy("PITCH RUNS ALLOWED PER GAME %", << >>, TRUE) >>),
      Top4List("Top 4 NRFI", "Overall CONFIDENCE FOR NRFI AND YRFI", nrfi_yrfi_map, {}, << >>),
      Top4List("Top 4 YRFI", "Overall CONFIDENCE FOR NRFI AND YRFI", nrfi_yrfi_map,
               {"High (YRFI)", "Moderate (leaning YRFI)"}, << >>),
      Top4List("Top 4 Hits Under", "Overall HITS CONFIDENCE", over_under_map,
               {"High (Under)", "Moderate (leaning Under)"}, << >>),
      Top4List("Top 4 Hits Over", "Overall HITS CONFIDENCE", over_under_map,
               {"High (Over)", "Moderate (leaning Over)"}, << >>) }
    \cup { Top4List("Top 4 " \o OverUnderMetrics[i].name \o " Under",
                    OverUnderMetrics[i].overall_conf_col, over_under_map, {"High (Under)"},
                    << SortBy(OverUnderMetrics[i].pitcher_col, << >>, TRUE),
                       SortBy(OverUnderMetrics[i].opponent_col, << >>, TRUE) >>)
           : i \in 1..Len(OverUnderMetrics) }
    \cup { Top4List("Top 4 " \o OverUnderMetrics[i].name \o " Over",
                    OverUnderMetrics[i].overall_conf_col, over_under_map, {"High (Over)"},
                    << SortBy(OverUnderMetrics[i].pitcher_col, << >>, FALSE),
                       SortBy(OverUnderMetrics[i].opponent_col, << >>, FALSE) >>)
           : i \in 1..Len(OverUnderMetrics) }

\* The weight of a row in a list.
WeightIn(list, row) == MapGet(list.map, row[list.col].s)

\* The rows of the table a list may take.
EligibleRows(list) ==
    {i \in 1..Len(report_df) :
        list.labels = {} \/ report_df[i][list.col].s \in list.labels}

\* The list holds the row at a table position.
Listed(list, i) ==
    \E k \in 1..Len(recommendations[list.name]) :
        /\ recommendations[list.name][k]["Game"] = report_df[i]["Game"]
        /\ recommendations[list.name][k]["Pitcher"] = report_df[i]["Pitcher"]

\* C16: every Top-4 list holds at most 4 rows, all eligible; its rows are in
\* non-increasing order of the weight of the list's confidence label; no
\* eligible row left out weighs strictly more than a row of the list; rows of
\* equal weight are in the order of the configured raw rates (Top 4
\* Strikeout: overall pitcher K rate, descending).
C16_Top4ByWeightThenRate ==
    (pc = "returned" /\ outcome = "ok") =>
        /\ DOMAIN recommendations = {list.name : list \in Top4Lists}
        /\ \A list \in Top4Lists :
               LET rows == recommendations[list.name]
               IN  /\ Len(rows) <= 4
                   /\ \A k \in 1..Len(rows) :
                          list.labels = {} \/ rows[k][list.col].s \in list.labels
                   /\ Len(rows) = (IF Cardinality(EligibleRows(list)) > 4 THEN 4
                                   ELSE Cardinality(EligibleRows(list)))
                   /\ \A k \in 1..(Len(rows) - 1) :
                          /\ WeightIn(list, rows[k]) >= WeightIn(list, rows[k + 1])
                          /\ WeightIn(list, rows[k]) = WeightIn(list, rows[k + 1])
                                 => ~RowBefore(rows[k + 1], rows[k], list.rates, 1)
                   /\ \A i \in EligibleRows(list) :
                          ~Listed(list, i) =>
                              \A k \in 1..Len(rows) :
                                  WeightIn(list, report_df[i]) <= WeightIn(list, rows[k])

\* A table of five rows has its lists: Top 4 Strikeout holds four rows, one
\* row is left out, and two of its rows of equal weight differ in K rate.
C16_Witness ==
    /\ pc = "returned"
    /\ outcome = "ok"
    /\ Len(report_df) = 5
    /\ Len(recommendations["Top 4 Strikeout"]) = 4
    /\ \E i \in 1..5 :
           /\ ~Listed(CHOOSE list \in Top4Lists : list.name = "Top 4 Strikeout", i)
           /\ report_df[i]["Overall K CONFIDENCE"].s = "Low"
    /\ \E k \in 1..3 :
           LET rows == recommendations["Top 4 Strikeout"]
           IN  /\ rows[k]["Overall K CONFIDENCE"] = rows[k + 1]["Overall K CONFIDENCE"]
               /\ NumLt(rows[k + 1]["PITCH K OVERALL RATE %"], rows[k]["PITCH K OVERALL RATE %"])

\* ------------------------------------------------------------------ C15
\* The pitcher of a row has ten starts before the report date, eight of them
\* without a run allowed: five of six at home, three of four away.
EightOfTenWithoutRuns(row) ==
    LET history == PitcherHistoryOfRow(row)
        home == {r \in history : r.is_home_pitcher}
        away == {r \in history : ~r.is_home_pitcher}
    IN  /\ nunique(history) = 10
        /\ nunique(home) = 6
        /\ nunique(away) = 4
        /\ ZeroGames(home, "inning_1_runs_allowed") = 5
        /\ ZeroGames(away, "inning_1_runs_allowed") = 3

\* The rows of the report the scenario is about: such a pitcher, at home.
ScenarioRows ==
    {i \in 1..Len(report_df) : EightOfTenWithoutRuns(report_df[i]) /\ PitcherIsHome(report_df[i])}

\* The percentages of the scenario: overall 80, venue 5/6 * 100.
ScenarioPercentages(row) ==
    /\ row["PITCH NRFI % INNING 1"] = Whole(80)
    /\ row["PITCHER VENUE NRFI % INNING 1"] = Num(500, 6)

\* The composite is High (NRFI) and the pitcher runs bet is the Under.
NrfiAndUnderBet(row) ==
    /\ row["Overall CONFIDENCE FOR NRFI AND YRFI"].s = "High (NRFI)"
    /\ row["PITCHER RUNS BET"].s = "Under Runs Bet"

\* C15 as stated: for a pitcher with ten starts, eight without a run (5 of 6
\* at home, 3 of 4 away), at home in the current game, the row has overall
\* NRFI % 80 and venue NRFI % 83.33; with a High run-prevention signal the
\* composite is High (NRFI) and the pitcher runs bet is "Under Runs Bet".
C15_TenStartsScenario ==
    ReportReturned =>
        \A i \in ScenarioRows :
            /\ ScenarioPercentages(report_df[i])
            /\ report_df[i]["Overall Run Prevention Confidence"].s = "High"
                   => NrfiAndUnderBet(report_df[i])

\* C15, amended: the same, where the composite is High (NRFI) and the bet the
\* Under when, besides the High run-prevention signal, the opposing team's
\* venue NRFI % is at least 70.
C15_TenStartsScenarioWithOpponent ==
    ReportReturned =>
        \A i \in ScenarioRows :
            /\ ScenarioPercentages(report_df[i])
            /\ (/\ report_df[i]["Overall Run Prevention Confidence"].s = "High"
                /\ Ge(report_df[i]["OPPONENT VENUE NRFI % INNING 1"], 70, 1))
                   => NrfiAndUnderBet(report_df[i])

\* The report holds the row of the scenario with a High run-prevention
\* signal, an opposing team at 100 % and the Under bet.
C15_Witness ==
    /\ ReportReturned
    /\ \E i \in ScenarioRows :
           /\ report_df[i]["Overall Run Prevention Confidence"].s = "High"
           /\ report_df[i]["OPPONENT VENUE NRFI % INNING 1"] = Whole(100)
           /\ NrfiAndUnderBet(report_df[i])

\* ------------------------------------------------------------------ C17
\* C17: in every report row 'Overall HITS CONFIDENCE' is
\* calculate_overall_nrhi_confidence of the two percentages the aggregator
\* computed under the catalog keys 'PITCH NRHI %' (the pitcher's games
\* without a hit allowed) and 'BAT NRHI %' (the opposing team's games
\* without a hit).
C17_HitsCompositeFromAggregates ==
    ReportReturned =>
        \A i \in 1..Len(report_df) :
            report_df[i]["Overall HITS CONFIDENCE"].s =
                calculate_overall_nrhi_confidence(report_df[i]["PITCH NRHI %"],
                                                  report_df[i]["BAT NRHI %"])

\* ------------------------------------------------------------------ C18
\* A returned call of the composite Over/Under function.
OverUnderReturned ==
    /\ pc = "returned"
    /\ call.fn = "calculate_overall_over_under_confidence"
    /\ call.args[1] \in OrdinalLabels
    /\ call.args[2] \in OrdinalLabels

ModerateLabels == {"Moderate (leaning Under)", "Moderate (leaning Over)"}

\* C18 as stated: High (Under) exactly for pitcher High and opponent Low,
\* High (Over) exactly for pitcher Low and opponent High, Neutral exactly when
\* both sides carry the same label (Low/Low, Moderate/Moderate, High/High),
\* and a Moderate (leaning ...) label in every other case.
C18_OverUnderRuleTable ==
    OverUnderReturned =>
        LET p == call.args[1]
            o == call.args[2]
        IN  /\ (result = "High (Under)") <=> (p = "High" /\ o = "Low")
            /\ (result = "High (Over)") <=> (p = "Low" /\ o = "High")
            /\ (result = "Neutral") <=> (p = o)
            /\ (result \in ModerateLabels) <=>
                   (p # o /\ << p, o >> \notin {<< "High", "Low" >>, << "Low", "High" >>})

\* C18, amended: High (Under) exactly for pitcher High and opponent Low;
\* High (Over) exactly for pitcher Low and opponent High; Moderate (leaning
\* Under) exactly for Moderate/Low, Moderate/Moderate and High/Moderate;
\* Moderate (leaning Over) exactly for Low/Moderate and Moderate/High; Neutral
\* exactly for Low/Low and High/High.
C18_OverUnderRuleTableOfTheCode ==
    OverUnderReturned =>
        LET p == call.args[1]
            o == call.args[2]
        IN  /\ (result = "High (Under)") <=> (p = "High" /\ o = "Low")
            /\ (result = "High (Over)") <=> (p = "Low" /\ o = "High")
            /\ (result = "Moderate (leaning Under)") <=>
                   (<< p, o >> \in {<< "Moderate", "Low" >>, << "Moderate", "Moderate" >>,
                                    << "High", "Moderate" >>})
            /\ (result = "Moderate (leaning Over)") <=>
                   (<< p, o >> \in {<< "Low", "Moderate" >>, << "Moderate", "High" >>})
            /\ (result = "Neutral") <=>
                   (<< p, o >> \in {<< "Low", "Low" >>, << "High", "High" >>})

\* Moderate against Moderate has returned Moderate (leaning Under).
C18_Witness ==
    /\ OverUnderReturned
    /\ call.args = << "Moderate", "Moderate" >>
    /\ result = "Moderate (leaning Under)"

\* ------------------------------------------------------------------ C19
\* The label of the opposite direction.
Flip(label) ==
    CASE label = "High (Under)" -> "High (Over)"
      [] label = "High (Over)" -> "High (Under)"
      [] label = "Moderate (leaning Under)" -> "Moderate (leaning Over)"
      [] label = "Moderate (leaning Over)" -> "Moderate (leaning Under)"
      [] OTHER -> label

\* C19 as stated: for all labels a and b the call with the two sides
\* exchanged returns the label of the opposite direction (Neutral stays
\* Neutral).
C19_OverUnderSymmetric ==
    OverUnderReturned =>
        result = Flip(calculate_overall_over_under_confidence(call.args[2], call.args[1]))

\* C19, amended: for all labels a and b that are not both Moderate the call
\* with the two sides exchanged returns the label of the opposite direction
\* (Neutral stays Neutral); Moderate against Moderate is Moderate (leaning
\* Under), which exchanging the sides does not change.
C19_OverUnderSymmetricButModerate ==
    OverUnderReturned =>
        IF call.args = << "Moderate", "Moderate" >>
        THEN result = "Moderate (leaning Under)"
        ELSE result = Flip(calculate_overall_over_under_confidence(call.args[2],
                                                                   call.args[1]))

\* High against Moderate has returned Moderate (leaning Under), and Moderate
\* against High is Moderate (leaning Over).
C19_Witness ==
    /\ OverUnderReturned
    /\ call.args = << "High", "Moderate" >>
    /\ result = "Moderate (leaning Under)"
    /\ calculate_overall_over_under_confidence("Moderate", "High") = "Moderate (leaning Over)"

\* ------------------------------------------------------------------ C20
\* A returned call of the NRFI/YRFI function.
NrfiYrfiReturned ==
    /\ pc = "returned"
    /\ call.fn = "calculate_overall_nrfi_yrfi_confidence"

\* Both percentages are at least t.
BothAtLeast(p, o, t) == Ge(p, t, 1) /\ Ge(o, t, 1)

\* Both complements (100 - pct) are at least t, i.e. both percentages are at
\* most 100 - t.
BothComplementsAtLeast(p, o, t) == Le(p, 100 - t, 1) /\ Le(o, 100 - t, 1)

\* C20: for all zero-run percentages in [0,100] and every run-prevention
\* label, the result is High (NRFI) iff both percentages are >= 70 and the
\* signal is Moderate or High; otherwise Moderate (leaning NRFI) iff both are
\* >= 60 and the signal is a recognised label; otherwise High (YRFI) iff both
\* complements are >= 70; otherwise Moderate (leaning YRFI) iff both
\* complements are >= 60; otherwise Low.  A Low signal caps a row with both
\* percentages >= 70 at Moderate (leaning NRFI), and an NRFI-direction result
\* never comes with percentages that select a YRFI-direction result.
C20_NrfiYrfiRule ==
    NrfiYrfiReturned =>
        LET p == call.args[1]
            o == call.args[2]
            c == call.args[3]
            high_nrfi == BothAtLeast(p, o, 70) /\ c \in {"Moderate", "High"}
            moderate_nrfi == BothAtLeast(p, o, 60) /\ c \in OrdinalLabels
            high_yrfi == BothComplementsAtLeast(p, o, 70)
            moderate_yrfi == BothComplementsAtLeast(p, o, 60)
        IN  /\ (result = "High (NRFI)") <=> high_nrfi
            /\ (result = "Moderate (leaning NRFI)") <=> (~high_nrfi /\ moderate_nrfi)
            /\ (result = "High (YRFI)") <=> (~high_nrfi /\ ~moderate_nrfi /\ high_yrfi)
            /\ (result = "Moderate (leaning YRFI)") <=>
                   (~high_nrfi /\ ~moderate_nrfi /\ ~high_yrfi /\ moderate_yrfi)
            /\ (result = "Low") <=>
                   (~high_nrfi /\ ~moderate_nrfi /\ ~high_yrfi /\ ~moderate_yrfi)
            /\ (BothAtLeast(p, o, 70) /\ c = "Low") => result = "Moderate (leaning NRFI)"
            /\ (result \in {"High (NRFI)", "Moderate (leaning NRFI)"}) => ~moderate_yrfi
            /\ (result \in {"High (YRFI)", "Moderate (leaning YRFI)"}) =>
                   ~BothAtLeast(p, o, 60)

\* Both percentages are 80 and the prevention signal is Low: the call has
\* returned Moderate (leaning NRFI).
C20_Witness ==
    /\ NrfiYrfiReturned
    /\ call.args = << Pct(4, 5), Pct(4, 5), "Low" >>
    /\ result = "Moderate (leaning NRFI)"

\* ------------------------------------------------------------------ C21
\* x is at most y.
NumLe(x, y) == x.n * y.d <= y.n * x.d

\* C21: the inline single-value classifiers are monotonic: for 'PITCH NRFI
\* CONF', 'PITCH NRHI CONF', 'PITCHER VENUE NRHI CONF', 'BAT NRHI CONF' and
\* 'BATTER VENUE NRHI CONF' a larger percentage never yields a lower label
\* (Low < Moderate < High), and for 'OPP R/G CONF' a larger runs-per-game
\* value never yields a lower label, for all attainable values k/n * 100 and
\* k/n.
C21_InlineClassifiersMonotonic ==
    /\ (pc = "returned" /\ call.fn \in PercentageConfColumns) =>
           \A y \in StartShares :
               NumLe(y, call.args[1]) =>
                   OrdinalRank(NoRunPctConf(y)) <= OrdinalRank(result)
    /\ (pc = "returned" /\ call.fn = "OPP R/G CONF") =>
           \A y \in RunsPerGame :
               NumLe(y, call.args[1]) =>
                   OrdinalRank(OppRunsPerGameConf(y)) <= OrdinalRank(result)

\* ------------------------------------------------------------------ C22
\* A returned application of calculate_k_bet_and_confidence.
KReturned ==
    /\ pc = "returned"
    /\ call.fn = "calculate_k_bet_and_confidence"

\* The number of rates that are at least 80.
AtLeast80(rates) == Cardinality({i \in DOMAIN rates : Ge(rates[i], 80, 1)})

\* One side's bet as the claim states it.
SideBet(venue_rate, overall_rate, conf) ==
    LET n == AtLeast80(<< venue_rate, overall_rate >>)
    IN  IF n = 2 THEN "HIGH OVER"
        ELSE IF n = 1 THEN "OVER"
        ELSE IF conf = "Low" THEN "Under K Bet"
        ELSE "Neutral"

\* C22: strikeout bets are graded per side: 'PITCHER K BET' depends on the
\* pitcher's venue and overall K rates only and 'OPPONENT K BET' on the
\* opponent's only (any other values on the other side leave it unchanged);
\* each is HIGH OVER when both of the side's rates are >= 80, OVER when
\* exactly one is, and otherwise Under K Bet when the side's ordinal K
\* confidence is Low and Neutral when it is not.  Every call is compared with
\* the call that has the same rates on the one side and zero rates on the
\* other, so all calls with equal rates on one side agree on that side's bet.
C22_KBetsPerSide ==
    KReturned =>
        LET pv == call.args[1]
            po == call.args[2]
            ov == call.args[3]
            oo == call.args[4]
        IN  /\ result["PITCHER K BET"] = SideBet(pv, po, result["PITCH K CONF"])
            /\ result["OPPONENT K BET"] = SideBet(ov, oo, result["OPP K CONF"])
            /\ KLabels(KRow(pv, po, Zero, Zero))["PITCHER K BET"] = result["PITCHER K BET"]
            /\ KLabels(KRow(Zero, Zero, ov, oo))["OPPONENT K BET"] = result["OPPONENT K BET"]

\* The pitcher's rates are 100 and 100, the opponent's 0 and 0: the pitcher
\* bet is HIGH OVER and the opponent bet is Under K Bet.
C22_Witness ==
    /\ KReturned
    /\ call.args = << Pct(1, 1), Pct(1, 1), Pct(0, 1), Pct(0, 1) >>
    /\ result["PITCHER K BET"] = "HIGH OVER"
    /\ result["OPPONENT K BET"] = "Under K Bet"

\* ------------------------------------------------------------------ C23
\* C23: 'Overall K CONFIDENCE' is HIGH OVER iff all four K rates are >= 80;
\* it is High when two or three are; when at most one is, it is High iff both
\* sides' ordinal K confidences are High, Low iff both are Low, and Moderate
\* otherwise.
C23_OverallKConfidence ==
    KReturned =>
        LET n == AtLeast80(call.args)
            overall == result["Overall K CONFIDENCE"]
            both(label) == result["PITCH K CONF"] = label /\ result["OPP K CONF"] = label
        IN  /\ (overall = "HIGH OVER") <=> (n = 4)
            /\ (n \in {2, 3}) => overall = "High"
            /\ (n <= 1) =>
                   /\ (overall = "High") <=> both("High")
                   /\ (overall = "Low") <=> both("Low")
                   /\ (overall = "Moderate") <=> (~both("High") /\ ~both("Low"))
            /\ overall \in {"HIGH OVER", "High", "Moderate", "Low"}

\* Three of the four rates are at least 80 and the label is High.
C23_Witness ==
    /\ KReturned
    /\ AtLeast80(call.args) = 3
    /\ result["Overall K CONFIDENCE"] = "High"

\* ------------------------------------------------------------------ C24
\* The categories as the claim lists them: the confidence column a category
\* reads and the labels that qualify a row for it.
StatedCategories ==
    [name \in {"Strikeout Parlays", "NRFI Parlays", "YRFI Parlays"} |->
        CASE name = "Strikeout Parlays" ->
                 [col |-> "Overall K CONFIDENCE", labels |-> {"High"}]
          [] name = "NRFI Parlays" ->
                 [col |-> "Overall CONFIDENCE FOR NRFI AND YRFI", labels |-> {"High (NRFI)"}]
          [] name = "YRFI Parlays" ->
                 [col |-> "Overall CONFIDENCE FOR NRFI AND YRFI",
                  labels |-> {"High (YRFI)", "Moderate (leaning YRFI)"}]]
    @@ [name \in {OverUnderNames[i] \o " Under Parlays" : i \in 1..Len(OverUnderNames)} |->
           [col |-> OverallCol(CHOOSE m \in SeqRange(OverUnderNames) :
                                   name = m \o " Under Parlays"),
            labels |-> {"High (Under)"}]]
    @@ [name \in {OverUnderNames[i] \o " Over Parlays" : i \in 1..Len(OverUnderNames)} |->
           [col |-> OverallCol(CHOOSE m \in SeqRange(OverUnderNames) :
                                   name = m \o " Over Parlays"),
            labels |-> {"High (Over)"}]]

\* The pairs (i, j), i < j, of table positions whose label in the column is
\* one of the labels.
StatedPairs(category) ==
    {<< i, j >> \in (1..Len(report_df)) \X (1..Len(report_df)) :
        /\ i < j
        /\ report_df[i][category.col].s \in category.labels
        /\ report_df[j][category.col].s \in category.labels}

\* C24: parlay categories are filled independently by exact label match:
\* the candidates of a category pair exactly the rows whose label in the
\* category's confidence column is in its qualifying set ("High" for
\* Strikeout, so never "HIGH OVER"; "High (NRFI)" for NRFI; "High (YRFI)" or
\* "Moderate (leaning YRFI)" for YRFI; "High (Under)" and "High (Over)" for
\* the Under and Over categories), whatever the rows' labels for other metrics.
C24_CategoriesByExactLabel ==
    (pc = "returned" /\ outcome = "ok") =>
        /\ DOMAIN parlays = DOMAIN StatedCategories
        /\ \A name \in DOMAIN StatedCategories :
               {parlays[name][k].combo : k \in 1..Len(parlays[name])}
                   = StatedPairs(StatedCategories[name])

\* A ranked table whose first row is HIGH OVER and whose other two rows are
\* High: the Strikeout list holds the one pair of the two High rows.
C24_Witness ==
    /\ pc = "returned" /\ outcome = "ok"
    /\ Len(report_df) = 3
    /\ report_df[1]["Overall K CONFIDENCE"].s = "HIGH OVER"
    /\ report_df[2]["Overall K CONFIDENCE"].s = "High"
    /\ report_df[3]["Overall K CONFIDENCE"].s = "High"
    /\ Len(parlays["Strikeout Parlays"]) = 1
    /\ parlays["Strikeout Parlays"][1].combo = << 2, 3 >>

\* ------------------------------------------------------------------ C25
\* Pair a comes before pair b in the order the pairs are enumerated.
EnumeratedBefore(a, b) == a[1] < b[1] \/ (a[1] = b[1] /\ a[2] < b[2])

\* C25: ties in parlay ranking are broken by input order: within a category,
\* candidates with equal score appear in the order in which their pairs
\* (i, j), i < j, are enumerated from the table (lexicographic by (i, j)).
C25_TiesInEnumerationOrder ==
    (pc = "returned" /\ outcome = "ok") =>
        \A name \in CategoryNames :
            \A k, l \in 1..Len(parlays[name]) :
                (k < l /\ parlays[name][k].score = parlays[name][l].score) =>
                    /\ parlays[name][k].combo[1] < parlays[name][k].combo[2]
                    /\ EnumeratedBefore(parlays[name][k].combo, parlays[name][l].combo)

\* Three High (NRFI) rows: the three candidates have the same score and are
\* listed as (1, 2), (1, 3), (2, 3).
C25_Witness ==
    /\ pc = "returned" /\ outcome = "ok"
    /\ Len(report_df) = 3
    /\ \A i \in 1..3 : report_df[i]["Overall CONFIDENCE FOR NRFI AND YRFI"].s = "High (NRFI)"
    /\ [k \in 1..3 |-> parlays["NRFI Parlays"][k].combo]
           = << << 1, 2 >>, << 1, 3 >>, << 2, 3 >> >>
    /\ \A k \in 1..3 : parlays["NRFI Parlays"][k].score = Whole(3)

\* ------------------------------------------------------------------ C26
\* The weight map the claim names for a category.
StatedMap(name) ==
    IF name = "Strikeout Parlays" THEN confidence_map
    ELSE IF name \in {"NRFI Parlays", "YRFI Parlays"} THEN nrfi_yrfi_map
    ELSE over_under_map

\* The weights (in halves) of the labels that qualify for a category.
QualifyingWeights(name) ==
    {StatedMap(name)[label] : label \in StatedCategories[name].labels}

\* C26: the score of every parlay candidate is the arithmetic mean of the
\* weights of its two rows' labels in the category's confidence column
\* (confidence_map for Strikeout, nrfi_yrfi_map for NRFI and YRFI,
\* over_under_map for the Over/Under categories), and so lies between the
\* smallest and the largest weight of the category's qualifying labels.
C26_ScoreIsMeanOfWeights ==
    (pc = "returned" /\ outcome = "ok") =>
        \A name \in CategoryNames :
            \A k \in 1..Len(parlays[name]) :
                LET p == parlays[name][k]
                    col == StatedCategories[name].col
                    w1 == StatedMap(name)[report_df[p.combo[1]][col].s]
                    w2 == StatedMap(name)[report_df[p.combo[2]][col].s]
                IN  /\ p.score = Num(w1 + w2, 4)
                    /\ \A w \in QualifyingWeights(name) :
                           (\A v \in QualifyingWeights(name) : w <= v) => Ge(p.score, w, 2)
                    /\ \A w \in QualifyingWeights(name) :
                           (\A v \in QualifyingWeights(name) : w >= v) => Le(p.score, w, 2)

\* A YRFI candidate of a Moderate (leaning YRFI) row and a High (YRFI) row:
\* its score is 2.75, the mean of 2.5 and 3.
C26_Witness ==
    /\ pc = "returned" /\ outcome = "ok"
    /\ \E k \in 1..Len(parlays["YRFI Parlays"]) :
          LET p == parlays["YRFI Parlays"][k]
          IN  /\ report_df[p.combo[1]]["Overall CONFIDENCE FOR NRFI AND YRFI"].s
                     = "Moderate (leaning YRFI)"
              /\ report_df[p.combo[2]]["Overall CONFIDENCE FOR NRFI AND YRFI"].s
                     = "High (YRFI)"
              /\ p.score = Num(11, 4)

\* ------------------------------------------------------------------ C27
\* Row r is the one row of the history with the greatest (date, game id).
IsLatestOf(r, history) ==
    /\ r \in history
    /\ \A o \in history \ {r} :
           o.date < r.date \/ (o.date = r.date /\ o.game_id < r.game_id)

\* Every last-game field of the catalog is the value of its column in row r.
LastGameFieldsFrom(row, catalog, r) ==
    \A k \in 1..Len(catalog) :
        catalog[k].last_game_key # None =>
            row[catalog[k].last_game_key] = Whole(r.vals[catalog[k].col_name])

\* C27: for every entity with at least one historical row before the report
\* date, every last-game field of the report row is read from the single
\* historical row with the greatest (date, game id) among the entity's rows
\* dated before the report date.
C27_LastGameFromLatestRow ==
    ReportReturned =>
        \A i \in 1..Len(report_df) :
            /\ PitcherHistoryOfRow(report_df[i]) # {} =>
                  \E r \in PitcherHistoryOfRow(report_df[i]) :
                      /\ IsLatestOf(r, PitcherHistoryOfRow(report_df[i]))
                      /\ LastGameFieldsFrom(report_df[i], PITCHER_METRICS_INNING, r)
            /\ OpponentHistoryOfRow(report_df[i]) # {} =>
                  \E r \in OpponentHistoryOfRow(report_df[i]) :
                      /\ IsLatestOf(r, OpponentHistoryOfRow(report_df[i]))
                      /\ LastGameFieldsFrom(report_df[i], BATTING_METRICS_INNING, r)

\* The opposing team played two games on the last date before the report
\* date, a rally in the first and a quiet inning in the second, after a rally
\* on an earlier date: the last-game runs are those of the second game.
C27_Witness ==
    /\ ReportReturned
    /\ \E i \in 1..Len(report_df) :
          \E a, b, c \in OpponentHistoryOfRow(report_df[i]) :
              /\ a.date < b.date
              /\ b.date = c.date /\ b.game_id < c.game_id
              /\ a.vals["inning_1_runs_scored"] = 2
              /\ b.vals["inning_1_runs_scored"] = 2
              /\ c.vals["inning_1_runs_scored"] = 0
              /\ report_df[i]["LAST GAME OPPONENT RUNS SCORED INNING 1"] = Zero

\* ------------------------------------------------------------------ C28
\* The weight of a label with the fallback the claim states: 0 for a label
\* confidence_map does not hold (weights in halves).
WeightOrZero(label) ==
    CASE label = "Low" -> 2
      [] label = "Moderate" -> 4
      [] label = "High" -> 6
      [] label = "HIGH OVER" -> 8
      [] OTHER -> 0

\* The Over/Under rule table on two weights.
OverUnderOfWeights(p, o) ==
    IF p = 6 /\ o = 2 THEN "High (Under)"
    ELSE IF p >= 4 /\ o <= 4 THEN "Moderate (leaning Under)"
    ELSE IF p = 2 /\ o = 6 THEN "High (Over)"
    ELSE IF p <= 4 /\ o >= 4 THEN "Moderate (leaning Over)"
    ELSE "Neutral"

\* A table of two rows that carry an unmapped label in every column.
UnmappedTable(label) == << LabelRow(1, << label, label, label >>),
                          LabelRow(2, << label, label, label >>) >>

\* C28: an unmapped label never stops the weighting: the composite
\* classifiers give a label that confidence_map lacks the weight 0 and return
\* a defined label (calculate_overall_over_under_confidence: the rule table on
\* the weights, "Neutral" when both labels are unmapped;
\* calculate_overall_nrfi_yrfi_confidence: never an NRFI label, "Low" unless
\* the percentages select a YRFI label), and the parlay score of two rows
\* with unmapped labels is 0.
C28_UnmappedLabelsWeighZero ==
    /\ (pc = "returned" /\ call.fn = "calculate_overall_over_under_confidence") =>
           /\ result = OverUnderOfWeights(WeightOrZero(call.args[1]),
                                          WeightOrZero(call.args[2]))
           /\ (call.args[1] \in UnmappedLabels /\ call.args[2] \in UnmappedLabels) =>
                  /\ result = "Neutral"
                  /\ \A cat \in ParlayCategories :
                         Parlay(UnmappedTable(call.args[1]), cat, << 1, 2 >>).score = Zero
    /\ (NrfiYrfiReturned /\ call.args[3] \in UnmappedLabels) =>
           /\ result \in {"High (YRFI)", "Moderate (leaning YRFI)", "Low"}
           /\ ~BothComplementsAtLeast(call.args[1], call.args[2], 60) => result = "Low"

\* Two unmapped labels have returned Neutral.
C28_Witness ==
    /\ pc = "returned"
    /\ call.fn = "calculate_overall_over_under_confidence"
    /\ call.args = << "N/A", "N/A" >>
    /\ result = "Neutral"

\* ------------------------------------------------------------------ C29
\* C29: in every generated report 'PITCH RUNS ALLOWED PER GAME %' is 0.0 in
\* every row, so 'PITCH RUNS ALLOWED CONF' is "High" and 'Overall Run
\* Prevention Confidence' is "High" or "Moderate", never "Low"; the
\* run-prevention signal therefore never keeps a row with both venue NRFI
\* percentages >= 70 from High (NRFI), nor one with both >= 60 from an NRFI
\* label.
C29_RunsAllowedShareIsZero ==
    ReportReturned =>
        \A i \in 1..Len(report_df) :
            LET row == report_df[i]
                p == row["PITCHER VENUE NRFI % INNING 1"]
                o == row["OPPONENT VENUE NRFI % INNING 1"]
                composite == row["Overall CONFIDENCE FOR NRFI AND YRFI"].s
            IN  /\ row["PITCH RUNS ALLOWED PER GAME %"] = Zero
                /\ row["PITCH RUNS ALLOWED CONF"].s = "High"
                /\ row["Overall Run Prevention Confidence"].s \in {"High", "Moderate"}
                /\ BothAtLeast(p, o, 70) => composite = "High (NRFI)"
                /\ (BothAtLeast(p, o, 60) /\ ~BothAtLeast(p, o, 70)) =>
                       composite = "Moderate (leaning NRFI)"

\* A row whose pitcher allowed runs in every earlier game (2 runs a game):
\* the share is 0.0 all the same and the prevention signal is Moderate.
C29_Witness ==
    /\ ReportReturned
    /\ \E i \in 1..Len(report_df) :
          /\ report_df[i]["PITCH RUNS ALLOWED/GM"] = Whole(2)
          /\ report_df[i]["PITCH RUNS ALLOWED PER GAME %"] = Zero
          /\ report_df[i]["PITCH RUNS ALLOWED CONF"].s = "High"
          /\ report_df[i]["Overall Run Prevention Confidence"].s = "Moderate"

\* ------------------------------------------------------------------ C30
\* C30: every row of the 'Top 4 NRFI' list carries High (NRFI), Moderate
\* (leaning NRFI) or, failing that, Low; a row labelled High (YRFI) or
\* Moderate (leaning YRFI) never appears in the list and never ranks ahead of
\* a Moderate (leaning NRFI) row.
C30_Top4NrfiHoldsNoYrfiRow ==
    ReportReturned =>
        LET top_nrfi == recommendations["Top 4 NRFI"]
            label(k) == top_nrfi[k]["Overall CONFIDENCE FOR NRFI AND YRFI"].s
        IN  /\ \A k \in 1..Len(top_nrfi) :
                   label(k) \in {"High (NRFI)", "Moderate (leaning NRFI)", "Low"}
            /\ \A k, l \in 1..Len(top_nrfi) :
                   (k < l /\ label(l) = "Moderate (leaning NRFI)") =>
                       label(k) \notin {"High (YRFI)", "Moderate (leaning YRFI)"}

====
